---- MODULE Spec2Model ----
\* Model of the MCP connection manager
\* (samples/python/agents/a2a_mcp_connector/mcp_connection_manager.py):
\* MCPServerConnection objects, the MCPConnectionManager registry, the shared
\* AsyncExitStack, the registry file, and the coroutines suspended at awaits.
EXTENDS Integers, Sequences, FiniteSets, TLC

\* ---------------------------------------------------------------- bounds
MaxConns == 3        \* MCPServerConnection objects alive at once
MaxStack == 2        \* channels open on the manager's exit stack at once
MaxWriteFailures == 1 \* registry writes that fail in one run

\* ---------------------------------------------------------------- values
None == "None"
ServerIds == {"s1", "s2"}
ToolIds == {"t1", "t2"}
RegistryPaths == {"registry.json"}
Urls == {"http://h"}
Tasks == {1, 2}      \* coroutines that may be suspended at an await at once
ConnIds == 1 .. MaxConns

\* Tool lists a remote may report: each tool is represented by its "name".
ToolLists == {<<>>, <<"t1">>, <<"t1", "t2">>}

\* (transport_type, kwargs) combinations a caller registers with.
RegInputs == {[transport_type |-> "jsonrpc", kwargs |-> [headers |-> "auth", command |-> None]],
              [transport_type |-> "sse", kwargs |-> [headers |-> "auth", command |-> None]],
              [transport_type |-> "stdio", kwargs |-> [headers |-> None, command |-> "cmd"]],
              [transport_type |-> "stdio", kwargs |-> [headers |-> None, command |-> None]],
              [transport_type |-> "ws", kwargs |-> [headers |-> None, command |-> None]]}

\* ---------------------------------------------------------------- dicts
\* A Python dict is a sequence of <<key, value>> pairs in insertion order.
DictValues(d) == {d[i][2] : i \in DOMAIN d}
DictHas(d, k) == \E i \in DOMAIN d : d[i][1] = k
DictGet(d, k) == d[CHOOSE i \in DOMAIN d : d[i][1] = k][2]
\* An assignment to a key already present that keeps the old value.
DictKeepFirst(d, k, v) == d
DictSetInPlace(d, k, v) == [i \in DOMAIN d |-> IF d[i][1] = k THEN <<k, v>> ELSE d[i]]
\* An assignment d[k] = v that is lost.
DictSetLost(d, k, v) == d
DictSet(d, k, v) == IF DictHas(d, k) THEN DictSetInPlace(d, k, v) ELSE Append(d, <<k, v>>)
\* A pop that empties the dict.
DictClear(d, k) == <<>>
DictPop(d, k) == SelectSeq(d, LAMBDA e : e[1] # k)
KeySeq(d) == [i \in DOMAIN d |-> d[i][1]]

\* ---------------------------------------------------------------- state
VARIABLES
  HAS_MCP_CLIENTS,     \* whether the MCP client libraries were importable
  conns,               \* the heap: ConnIds -> MCPServerConnection | None
  servers,             \* MCPConnectionManager.servers: server_id -> ConnId
  tool_to_server_map,  \* MCPConnectionManager.tool_to_server_map
  exit_stack,          \* the manager's AsyncExitStack: entered contexts
  registry_path,       \* MCPConnectionManager.registry_path
  registry_file,       \* content of the file at the registry path
  write_failures,      \* failed registry writes so far
  tasks,               \* per coroutine: where it is suspended
  remote_up,           \* whether the remote servers still answer
  ret,                 \* the call that returned in the last step
  wire                 \* the requests sent to remotes in the last step

vars == <<HAS_MCP_CLIENTS, conns, servers, tool_to_server_map, exit_stack,
          registry_path, registry_file, write_failures, tasks, remote_up, ret, wire>>

\* The local "server" of a coroutine that holds no connection.
NoConn == 0
\* A free heap slot.
NoObject == [server_id |-> None]
IsObject(o) == o.server_id # None

EmptyRegistry == [servers |-> <<>>, tool_mappings |-> <<>>]
NoFile == [state |-> "missing", data |-> EmptyRegistry]
Corrupt == [state |-> "corrupt", data |-> EmptyRegistry]
NoArgs == [none |-> TRUE]
NoRet == [op |-> None, args |-> NoArgs, result |-> [none |-> TRUE]]
IdleTask == [pc |-> "idle", op |-> None, args |-> NoArgs, conn |-> NoConn]

\* A constructor that makes the connection active at once.
NewConnectionActive(server_id, server_url, transport_type, exit_stack_given, kwargs) ==
  [server_id |-> server_id,
   server_url |-> server_url,
   transport_type |-> transport_type,
   connection_params |-> kwargs,
   available_tools |-> <<>>,
   session |-> None,
   connection_active |-> TRUE,
   managed_exit_stack |-> ~exit_stack_given,
   reader |-> None]

\* MCPServerConnection.__init__
NewConnection(server_id, server_url, transport_type, exit_stack_given, kwargs) ==
  [server_id |-> server_id,
   server_url |-> server_url,
   transport_type |-> transport_type,
   connection_params |-> kwargs,
   available_tools |-> <<>>,
   session |-> None,
   connection_active |-> FALSE,
   managed_exit_stack |-> ~exit_stack_given,
   reader |-> None]

\* MCPConnectionManager.__init__
Init ==
  /\ HAS_MCP_CLIENTS \in BOOLEAN
  /\ conns = [c \in ConnIds |-> NoObject]
  /\ servers = <<>>
  /\ tool_to_server_map = <<>>
  /\ exit_stack = <<>>
  /\ registry_path = None
  /\ registry_file = NoFile
  /\ write_failures = 0
  /\ tasks = [t \in Tasks |-> IdleTask]
  /\ remote_up = TRUE
  /\ ret = NoRet
  /\ wire = <<>>

\* ---------------------------------------------------------------- heap
\* Objects referenced by the server set or by a suspended coroutine stay; the
\* rest are garbage.  Live objects are numbered in the order of the server
\* set, then of the coroutines holding them.
RECURSIVE Detached(_, _, _)
Detached(srv, tk, t) ==
  IF t \notin Tasks THEN <<>>
  ELSE LET later == Detached(srv, tk, t + 1)
           c == tk[t].conn
       IN IF c = NoConn \/ c \in DictValues(srv) \/ (\E u \in 1 .. t - 1 : tk[u].conn = c)
          THEN later ELSE <<c>> \o later
LiveOrder(srv, tk) == [i \in DOMAIN srv |-> srv[i][2]] \o Detached(srv, tk, 1)
IndexOf(q, x) == CHOOSE i \in DOMAIN q : q[i] = x
\* A slot for a new object, outside the numbering of the live ones.
TempConn(i) == MaxConns + i

\* The heap, the server set and the coroutines after a step.
Commit(cs, srv, tk) ==
  LET order == LiveOrder(srv, tk) IN
  /\ Len(order) <= MaxConns
  /\ conns' = [c \in ConnIds |-> IF c <= Len(order) THEN cs[order[c]] ELSE NoObject]
  /\ servers' = [i \in DOMAIN srv |-> <<srv[i][1], IndexOf(order, srv[i][2])>>]
  /\ tasks' = [t \in Tasks |->
                 IF tk[t].conn = NoConn THEN tk[t]
                 ELSE [tk[t] EXCEPT !.conn = IndexOf(order, tk[t].conn)]]

\* A new call runs in the first coroutine slot that is free.
CanStart(t) ==
  /\ tasks[t].pc = "idle"
  /\ \A u \in 1 .. t - 1 : tasks[u].pc # "idle"

\* ---------------------------------------------------------------- wire
\* The JSON value null as the result member of a response.
NoResult == [type |-> "null", has_output |-> FALSE, output |-> None]

\* One request sent to a remote server; answer is filled in when the answer
\* arrives within the same step, value is the result member of a result
\* envelope that answers an invocation.
Request(conn, method, with_headers) ==
  [server_id |-> conn.server_id, method |-> method,
   headers |-> IF with_headers THEN conn.connection_params.headers ELSE None,
   answer |-> None, value |-> NoResult]
Answered(conn, method, with_headers, answer) ==
  [Request(conn, method, with_headers) EXCEPT !.answer = answer]

\* ------------------------------------------------- MCPServerConnection
\* A disconnect() that does nothing.
StayConnected(conn) == conn
\* MCPServerConnection.disconnect: the exit stack is closed only when the
\* connection made its own; the manager's connections share the manager's.
disconnect(conn) ==
  IF conn.connection_active
  THEN [conn EXCEPT !.connection_active = FALSE, !.session = None, !.reader = None]
  ELSE conn

\* Replies of the remote to the fallback "tools/list" request.
ListReplies ==
  {[kind |-> k, tools |-> <<>>] : k \in {"exception", "http_error", "rpc_error"}}
    \cup {[kind |-> "tools", tools |-> l] : l \in ToolLists}

\* MCPServerConnection._list_tools_direct
list_tools_direct(conn, reply) ==
  IF reply.kind = "tools"
  THEN [conn EXCEPT !.available_tools = reply.tools]
  ELSE conn

\* Answers to the fallback "ping"; a remote that is down only times out.
PingReplies == IF remote_up THEN {"exception", "http_error", "invalid_json", "ok"}
               ELSE {"exception"}

\* A connect() that marks the connection active before the ping is answered.
connect_direct_eager(conn, ping, list) ==
  [conn |-> [conn EXCEPT !.connection_active = TRUE], ok |-> ping = "ok",
   wire |-> <<Answered(conn, "ping", TRUE, ping)>>]

\* connect() without the test of lines 94-96.
NeverActive(conn) == FALSE
\* connect() lines 94-96: "if self.connection_active: return True".
AlreadyActive(conn) == conn.connection_active

\* MCPServerConnection.connect without the MCP client libraries: the whole
\* call runs without suspending (requests.post blocks).
connect_direct(conn, ping, list) ==
  IF AlreadyActive(conn)
  THEN [conn |-> conn, ok |-> TRUE, wire |-> <<>>]
  ELSE IF conn.transport_type = "jsonrpc"
  THEN IF ping = "exception"
       THEN [conn |-> disconnect(conn), ok |-> FALSE,
             wire |-> <<Answered(conn, "ping", TRUE, ping)>>]
       ELSE IF ping \in {"http_error", "invalid_json"}
       THEN [conn |-> conn, ok |-> FALSE, wire |-> <<Answered(conn, "ping", TRUE, ping)>>]
       ELSE [conn |-> [list_tools_direct(conn, list) EXCEPT !.connection_active = TRUE],
             ok |-> TRUE,
             wire |-> <<Answered(conn, "ping", TRUE, ping),
                        Answered(conn, "tools/list", TRUE, list.kind)>>]
  ELSE [conn |-> conn, ok |-> FALSE, wire |-> <<>>]

\* ------------------------------------------------- registry persistence
\* A snapshot that leaves the connection parameters out.
SnapshotBare(cs, srv, map) ==
  [servers |-> [i \in DOMAIN srv |->
                  <<srv[i][1], [url |-> cs[srv[i][2]].server_url,
                                transport_type |-> cs[srv[i][2]].transport_type,
                                connection_params |-> [headers |-> None, command |-> None]]>>],
   tool_mappings |-> map]
\* The data save_registry writes.
Snapshot(cs, srv, map) ==
  [servers |-> [i \in DOMAIN srv |->
                  <<srv[i][1], [url |-> cs[srv[i][2]].server_url,
                                transport_type |-> cs[srv[i][2]].transport_type,
                                connection_params |-> cs[srv[i][2]].connection_params]>>],
   tool_mappings |-> map]

SaveOutcomes == {"ok", "open_fail", "write_fail"}

\* The file after save_registry: written, untouched (open failed) or
\* truncated (the dump failed after the file was opened for writing).
SavedFile(cs, srv, map, o) ==
  IF o = "ok" THEN [state |-> "ok", data |-> Snapshot(cs, srv, map)]
  ELSE IF o = "open_fail" THEN registry_file
  ELSE Corrupt

\* A save that writes the registry as it was before the mutation.
PersistStale(cs, srv, map) ==
  IF registry_path = None
  THEN UNCHANGED <<registry_file, write_failures>>
  ELSE \E o \in SaveOutcomes :
         /\ o # "ok" => write_failures < MaxWriteFailures
         /\ registry_file' = SavedFile(conns, servers, tool_to_server_map, o)
         /\ write_failures' = IF o = "ok" THEN write_failures ELSE write_failures + 1

\* "if self.registry_path: self.save_registry()" at the end of a mutation.
Persist(cs, srv, map) ==
  IF registry_path = None
  THEN UNCHANGED <<registry_file, write_failures>>
  ELSE \E o \in SaveOutcomes :
         /\ o # "ok" => write_failures < MaxWriteFailures
         /\ registry_file' = SavedFile(cs, srv, map, o)
         /\ write_failures' = IF o = "ok" THEN write_failures ELSE write_failures + 1

\* ------------------------------------------------- fallback RPC codec
\* Reserved error codes of jsonrpc_utils.
PARSE_ERROR == -32700
INVALID_REQUEST == -32600
INTERNAL_ERROR == -32603

\* The id the request carried (it embeds a fresh uuid).
RequestId == "req"

\* Response bodies of a remote.  json: the text parses; dict: the parsed
\* value is an object; the other fields are the object's members.
ResultValues ==
  {[type |-> "dict", has_output |-> TRUE, output |-> "out"],
   [type |-> "dict", has_output |-> FALSE, output |-> None],
   [type |-> "str", has_output |-> FALSE, output |-> None],
   [type |-> "list", has_output |-> FALSE, output |-> None],
   [type |-> "int", has_output |-> FALSE, output |-> None]}
ErrorValues ==
  {[dict |-> TRUE, has_code |-> TRUE, code |-> -32601, message |-> "remote message",
    data |-> "remote data"],
   [dict |-> TRUE, has_code |-> FALSE, code |-> 0, message |-> None, data |-> None],
   [dict |-> FALSE, has_code |-> FALSE, code |-> 0, message |-> None, data |-> None]}
NoError == [dict |-> FALSE, has_code |-> FALSE, code |-> 0, message |-> None, data |-> None]
Envelope(version, id, has_error, error, has_result, result) ==
  [json |-> TRUE, dict |-> TRUE, jsonrpc |-> version, id |-> id,
   has_error |-> has_error, error |-> error, has_result |-> has_result, result |-> result]
NotJson ==
  [Envelope(None, None, FALSE, NoError, FALSE, NoResult) EXCEPT !.json = FALSE, !.dict = FALSE]
NotDict == [Envelope(None, None, FALSE, NoError, FALSE, NoResult) EXCEPT !.dict = FALSE]
SomeResult == [type |-> "dict", has_output |-> TRUE, output |-> "out"]
Bodies ==
  {NotJson, NotDict}
    \cup {Envelope("2.0", RequestId, FALSE, NoError, TRUE, r) : r \in ResultValues \cup {NoResult}}
    \cup {Envelope("2.0", i, TRUE, e, FALSE, NoResult) : i \in {RequestId, None}, e \in ErrorValues}
    \cup {Envelope("2.0", "other", FALSE, NoError, TRUE, SomeResult)}
    \cup {Envelope(v, RequestId, FALSE, NoError, TRUE, SomeResult) : v \in {None, "1.0"}}
    \cup {Envelope("2.0", i, FALSE, NoError, FALSE, NoResult) : i \in {RequestId, "other"}}

JsonRpcError(code, message, data) ==
  [raised |-> TRUE, code |-> code, message |-> message, data |-> data, result |-> NoResult]

\* parse_jsonrpc_response without the comparison of ids of lines 155-160.
parse_any_id(body, expected_id) ==
  IF ~body.json
  THEN JsonRpcError(PARSE_ERROR, "Oops, couldn't parse the JSON response", "response_text")
  ELSE IF ~body.dict \/ body.jsonrpc # "2.0" \/ (~body.has_error /\ ~body.has_result)
  THEN JsonRpcError(INVALID_REQUEST, "not a valid JSON-RPC response", "response")
  ELSE IF body.has_error
  THEN JsonRpcError(IF body.error.dict /\ body.error.has_code THEN body.error.code
                    ELSE INTERNAL_ERROR, body.error.message, body.error.data)
  ELSE [raised |-> FALSE, code |-> 0, message |-> None, data |-> None, result |-> body.result]

\* jsonrpc_utils.parse_jsonrpc_response: the result, or the JsonRpcError raised.
parse_jsonrpc_response(body, expected_id) ==
  IF ~body.json
  THEN JsonRpcError(PARSE_ERROR, "Oops, couldn't parse the JSON response", "response_text")
  ELSE IF ~body.dict
  THEN JsonRpcError(INVALID_REQUEST,
                    "This doesn't look like a proper JSON-RPC response object", "response")
  ELSE IF body.jsonrpc # "2.0"
  THEN JsonRpcError(INVALID_REQUEST,
                    "Missing the 'jsonrpc': '2.0' field - not a valid JSON-RPC response",
                    "response")
  ELSE IF expected_id # None /\ body.id # expected_id
  THEN JsonRpcError(INVALID_REQUEST, "ID mismatch!", "response")
  ELSE IF body.has_error
  THEN IF ~body.error.dict
       THEN JsonRpcError(INTERNAL_ERROR, "The error field isn't formatted right", "response")
       ELSE JsonRpcError(IF body.error.has_code THEN body.error.code ELSE INTERNAL_ERROR,
                         IF body.error.message # None THEN body.error.message
                         ELSE "Something went wrong but the server didn't say what",
                         body.error.data)
  ELSE IF ~body.has_result
  THEN JsonRpcError(INVALID_REQUEST,
                    "This response doesn't have either a 'result' or an 'error' - what gives?",
                    "response")
  ELSE [raised |-> FALSE, code |-> 0, message |-> None, data |-> None, result |-> body.result]

\* ------------------------------------------------- tool invocation
\* What a call hands back: a returned dict, or an exception that escaped.
Returned(status, tool_id, message, code, payload) ==
  [raised |-> FALSE, status |-> status, tool_id |-> tool_id, message |-> message,
   code |-> code, payload |-> payload]
Escaped(what) ==
  [raised |-> TRUE, status |-> None, tool_id |-> None, message |-> <<what>>,
   code |-> 0, payload |-> None]

\* Answers of the remote to one HTTP request of the fallback.
HttpReplies ==
  {[exception |-> TRUE, status_code |-> 0, body |-> NotJson]}
    \cup (IF remote_up
          THEN {[exception |-> FALSE, status_code |-> 200, body |-> b] : b \in Bodies}
                 \cup {[exception |-> FALSE, status_code |-> 500, body |-> NotJson]}
          ELSE {})

\* What the remote's answer to an invocation is: a transport failure, an HTTP
\* error, a result envelope for the request, an error envelope, or neither.
ExecuteAnswer(reply) ==
  IF reply.exception THEN "exception"
  ELSE IF reply.status_code >= 400 THEN "http_error"
  ELSE IF ~(reply.body.json /\ reply.body.dict /\ reply.body.jsonrpc = "2.0") THEN "malformed"
  ELSE IF reply.body.has_error THEN "error"
  ELSE IF reply.body.has_result /\ reply.body.id = RequestId THEN "result"
  ELSE "malformed"

\* The result member of the envelope that answers an invocation with a result.
ExecuteValue(reply) ==
  IF ExecuteAnswer(reply) = "result" THEN reply.body.result ELSE NoResult

\* MCPServerConnection._execute_tool_json_rpc_direct, lines 366-393: the
\* handling of a response below 400.  result.get on a non-dict result raises
\* AttributeError, which neither inner handler catches.
execute_direct_parsed(tool_id, body) ==
  LET p == parse_jsonrpc_response(body, RequestId) IN
  IF p.raised
  THEN Returned("error", tool_id, <<"MCP tool returned JSON-RPC error: ", p.message>>,
                p.code, p.data)
  ELSE IF p.result.type # "dict"
  THEN Escaped("AttributeError")
  ELSE Returned("success", tool_id, <<>>, 0,
                IF p.result.has_output THEN p.result.output ELSE "result")

\* MCPServerConnection._execute_tool_json_rpc_direct
execute_tool_json_rpc_direct(tool_id, reply) ==
  LET inner == IF reply.exception THEN Escaped("requests exception")
               ELSE IF reply.status_code < 400
               THEN execute_direct_parsed(tool_id, reply.body)
               ELSE Returned("error", tool_id,
                             <<"MCP tool returned HTTP error code ", "status_code">>, 0,
                             "error_details")
  IN IF inner.raised
     THEN Returned("error", tool_id, <<"Error calling MCP tool: ">> \o inner.message, 0, None)
     ELSE inner

\* Outcomes of session.call_tool / call_method.
SessionReplies == {"result", "raise"}

\* MCPServerConnection._execute_tool_with_session, once the awaited call is back.
execute_tool_with_session(tool_id, reply) ==
  IF reply = "raise"
  THEN Returned("error", tool_id, <<"Error executing tool with session: ", "exception">>, 0, None)
  ELSE Returned("success", tool_id, <<>>, 0, "out")

\* The outer handler of MCPServerConnection.execute_tool (lines 321-326).
execute_tool_guard(r) ==
  IF r.raised
  THEN Returned("error", None, <<"Error executing tool: ">> \o r.message, 0, None)
  ELSE r


\* ------------------------------------------------- frames of a step
\* What a step leaves of the manager, the heap and the coroutines.
Effect(cs, srv, map, stack, tk) ==
  /\ Commit(cs, srv, tk)
  /\ tool_to_server_map' = map
  /\ exit_stack' = stack
  /\ UNCHANGED <<HAS_MCP_CLIENTS, remote_up>>
NoEffect ==
  UNCHANGED <<conns, servers, tasks, tool_to_server_map, exit_stack, HAS_MCP_CLIENTS, remote_up>>
NoSave == UNCHANGED <<registry_file, write_failures>>
\* The call returns result; w are the requests it sent in this step.
Return(op, args, result, w) ==
  /\ ret' = [op |-> op, args |-> args, result |-> result]
  /\ wire' = w
\* The call is suspended at an await; w are the requests sent so far.
Suspend(w) ==
  /\ ret' = NoRet
  /\ wire' = w

\* MCPConnectionManager.save_registry
save_registry ==
  /\ ret.op = None
  /\ IF registry_path = None
     THEN /\ NoSave
          /\ Return("save_registry", NoArgs, [value |-> FALSE], <<>>)
     ELSE \E o \in SaveOutcomes :
            /\ o # "ok" => write_failures < MaxWriteFailures
            /\ registry_file' = SavedFile(conns, servers, tool_to_server_map, o)
            /\ write_failures' = IF o = "ok" THEN write_failures ELSE write_failures + 1
            /\ Return("save_registry", NoArgs, [value |-> (o = "ok")], <<>>)
  /\ NoEffect
  /\ UNCHANGED registry_path

\* MCPConnectionManager.set_registry_path
set_registry_path(path) ==
  /\ ret.op = None
  /\ registry_path' = path
  /\ Return("set_registry_path", [path |-> path], [value |-> FALSE], <<>>)
  /\ NoEffect
  /\ NoSave

\* ------------------------------------------------- MCPConnectionManager
\* MCPConnectionManager.load_registry.  "self.servers = {}" drops the old
\* connection objects; one new object is made per server of the file.  A
\* file in state "bad_entry" parses, and data.servers are its entries up to
\* the one for which MCPServerConnection(...) raises.
load_registry(path) ==
  /\ ret.op = None
  /\ LET rp == IF path # None THEN path ELSE registry_path
         data == registry_file.data
         n == Len(data.servers)
         srv == [i \in 1 .. n |-> <<data.servers[i][1], TempConn(i)>>]
         cs == [c \in 1 .. TempConn(n) |->
                  IF c <= MaxConns THEN conns[c]
                  ELSE NewConnection(data.servers[c - MaxConns][1],
                                     data.servers[c - MaxConns][2].url,
                                     data.servers[c - MaxConns][2].transport_type, TRUE,
                                     data.servers[c - MaxConns][2].connection_params)]
     IN /\ registry_path' = rp
        /\ IF rp = None \/ registry_file.state \in {"missing", "corrupt"}
           THEN /\ NoEffect
                /\ Return("load_registry", [path |-> path], [value |-> FALSE], <<>>)
           ELSE IF registry_file.state = "bad_entry"
           THEN /\ Effect(cs, srv, <<>>, exit_stack, tasks)
                /\ Return("load_registry", [path |-> path], [value |-> FALSE], <<>>)
           ELSE /\ Effect(cs, srv, data.tool_mappings, exit_stack, tasks)
                /\ Return("load_registry", [path |-> path], [value |-> TRUE], <<>>)
  /\ NoSave

\* A listing of the servers from the last registered to the first.
ServerListReversed ==
  [i \in DOMAIN servers |->
     LET c == servers[Len(servers) + 1 - i][2] IN
     [id |-> servers[Len(servers) + 1 - i][1],
      url |-> conns[c].server_url,
      transport_type |-> conns[c].transport_type,
      active |-> conns[c].connection_active,
      tools |-> Len(conns[c].available_tools)]]
\* MCPConnectionManager.list_servers: the returned list.
ServerList ==
  [i \in DOMAIN servers |->
     [id |-> servers[i][1],
      url |-> conns[servers[i][2]].server_url,
      transport_type |-> conns[servers[i][2]].transport_type,
      active |-> conns[servers[i][2]].connection_active,
      tools |-> Len(conns[servers[i][2]].available_tools)]]

list_servers ==
  /\ ret.op = None
  /\ Return("list_servers", NoArgs, [servers |-> ServerList], <<>>)
  /\ NoEffect
  /\ NoSave
  /\ UNCHANGED registry_path

SeqHas(q, x) == \E i \in DOMAIN q : q[i] = x

\* One entry of list_tools: the cached descriptor, or the default one.
ToolInfo(tool_id, server_id) ==
  [name |-> tool_id,
   description |-> IF SeqHas(conns[DictGet(servers, server_id)].available_tools, tool_id)
                   THEN <<"description from the server">>
                   ELSE <<"Tool on server ", server_id>>,
   server_id |-> server_id,
   transport_type |-> conns[DictGet(servers, server_id)].transport_type]

\* A listing that does not skip the routes whose server is missing.
ToolListAll ==
  [i \in DOMAIN tool_to_server_map |->
     IF DictHas(servers, tool_to_server_map[i][2])
     THEN ToolInfo(tool_to_server_map[i][1], tool_to_server_map[i][2])
     ELSE [name |-> tool_to_server_map[i][1],
           description |-> <<"Tool on server ", tool_to_server_map[i][2]>>,
           server_id |-> tool_to_server_map[i][2],
           transport_type |-> None]]
\* MCPConnectionManager.list_tools: the returned list.
ToolList ==
  LET kept == SelectSeq(tool_to_server_map, LAMBDA e : DictHas(servers, e[2]))
  IN [i \in DOMAIN kept |-> ToolInfo(kept[i][1], kept[i][2])]

list_tools ==
  /\ ret.op = None
  /\ Return("list_tools", NoArgs, [tools |-> ToolList], <<>>)
  /\ NoEffect
  /\ NoSave
  /\ UNCHANGED registry_path

RegistryResult(status, message, removed) ==
  [status |-> status, message |-> message, removed |-> removed]

\* MCPConnectionManager.register_tool
register_tool(tool_id, server_id) ==
  /\ ret.op = None
  /\ LET args == [tool_id |-> tool_id, server_id |-> server_id] IN
     IF ~DictHas(servers, server_id)
     THEN /\ NoEffect
          /\ NoSave
          /\ Return("register_tool", args,
                    RegistryResult("error", <<"Server '", server_id, "' is not registered">>,
                                   <<>>), <<>>)
     ELSE LET map == DictSet(tool_to_server_map, tool_id, server_id) IN
          /\ Effect(conns, servers, map, exit_stack, tasks)
          /\ Persist(conns, servers, map)
          /\ Return("register_tool", args,
                    RegistryResult("success",
                                   <<"Tool '", tool_id, "' registered with server '",
                                     server_id, "'">>, <<>>), <<>>)
  /\ UNCHANGED registry_path

\* MCPConnectionManager.remove_tool
remove_tool(tool_id) ==
  /\ ret.op = None
  /\ LET args == [tool_id |-> tool_id] IN
     IF ~DictHas(tool_to_server_map, tool_id)
     THEN /\ NoEffect
          /\ NoSave
          /\ Return("remove_tool", args,
                    RegistryResult("error", <<"Tool '", tool_id, "' is not registered">>,
                                   <<>>), <<>>)
     ELSE LET map == DictPop(tool_to_server_map, tool_id) IN
          /\ Effect(conns, servers, map, exit_stack, tasks)
          /\ Persist(conns, servers, map)
          /\ Return("remove_tool", args,
                    RegistryResult("success",
                                   <<"Successfully removed tool '", tool_id, "'">>,
                                   <<tool_id, DictGet(tool_to_server_map, tool_id)>>), <<>>)
  /\ UNCHANGED registry_path

\* The loop of remove_server over list(self.tool_to_server_map.items()):
\* the tool ids it reports, and the routing table it leaves.
\* The report without the test of line 824: every tool id of the table.
AllTools(map, server_id) == KeySeq(map)
ToolsOf(map, server_id) == KeySeq(SelectSeq(map, LAMBDA e : e[2] = server_id))
\* remove_server without the loop of lines 823-826.
KeepTools(map, server_id) == map
PruneTools(map, server_id) == SelectSeq(map, LAMBDA e : e[2] # server_id)

\* MCPConnectionManager.remove_server
remove_server(server_id) ==
  /\ ret.op = None
  /\ LET args == [server_id |-> server_id] IN
     IF ~DictHas(servers, server_id)
     THEN /\ NoEffect
          /\ NoSave
          /\ Return("remove_server", args,
                    RegistryResult("error", <<"Server '", server_id, "' is not registered">>,
                                   <<>>), <<>>)
     ELSE LET c == DictGet(servers, server_id)
              cs == [conns EXCEPT ![c] = disconnect(conns[c])]
              srv == DictPop(servers, server_id)
              map == PruneTools(tool_to_server_map, server_id)
          IN /\ Effect(cs, srv, map, exit_stack, tasks)
             /\ Persist(cs, srv, map)
             /\ Return("remove_server", args,
                       RegistryResult("success",
                                      <<"Successfully removed server '", server_id, "'">>,
                                      ToolsOf(tool_to_server_map, server_id)), <<>>)
  /\ UNCHANGED registry_path

\* The sessions entered on the stack are closed with it.
CloseSessions(cs) ==
  [c \in DOMAIN cs |->
     IF IsObject(cs[c]) /\ cs[c].session = "open" THEN [cs[c] EXCEPT !.session = "closed"]
     ELSE cs[c]]

\* An aclose that stops at the first exit that raises: the contexts entered
\* before it stay on the stack.
RECURSIVE aclose_abort(_, _)
aclose_abort(stack, failing) ==
  IF stack = <<>> THEN <<>>
  ELSE IF Len(stack) \in failing THEN SubSeq(stack, 1, Len(stack) - 1)
  ELSE aclose_abort(SubSeq(stack, 1, Len(stack) - 1), failing)
\* AsyncExitStack.aclose: the contexts are exited last entered first, an exit
\* that raises does not stop the others; what is left on the stack.  failing
\* are the positions of the contexts whose exit raises.
RECURSIVE aclose(_, _)
aclose(stack, failing) ==
  IF stack = <<>> THEN <<>>
  ELSE aclose(SubSeq(stack, 1, Len(stack) - 1), failing)

\* MCPConnectionManager.disconnect_all (and its alias close_all_connections):
\* AsyncExitStack.aclose leaves every entered context, and re-raises what an
\* exit raised.
disconnect_all ==
  /\ ret.op = None
  /\ \E failing \in SUBSET DOMAIN exit_stack :
       /\ Effect(CloseSessions(conns), servers, tool_to_server_map,
                 aclose(exit_stack, failing), tasks)
       /\ Return("disconnect_all", NoArgs, [value |-> failing # {}], <<>>)
  /\ NoSave
  /\ UNCHANGED registry_path

\* ------------------------------------------------- calls that may suspend
\* register_server lines 645-650: a route for every reported tool that has a name.
RECURSIVE SeedTools(_, _, _)
SeedTools(map, tools, server_id) ==
  IF tools = <<>> THEN map
  ELSE SeedTools(IF Head(tools) # "" THEN DictSet(map, Head(tools), server_id) ELSE map,
                 Tail(tools), server_id)

RegisterResult(status, message, tools) ==
  [status |-> status, message |-> message, tools |-> tools]

\* register_server with lines 636-640 missing: the server is added whatever
\* connect() returned.
register_server_finish_unchecked(t, args, c, cs, stack, ok, w) ==
  LET srv == DictSet(servers, args.server_id, c)
      map == SeedTools(tool_to_server_map, cs[c].available_tools, args.server_id)
  IN /\ Effect(cs, srv, map, stack, [tasks EXCEPT ![t] = IdleTask])
     /\ Persist(cs, srv, map)
     /\ Return("register_server", args,
               IF ok THEN RegisterResult("success", <<>>, Len(cs[c].available_tools))
               ELSE RegisterResult("error", <<"Couldn't reach the server at ", args.server_url,
                                              " - is it running?">>, 0), w)

\* MCPConnectionManager.register_server from the return of connect() on
\* (lines 636-665); cs and stack are the heap and the exit stack connect left.
register_server_finish(t, args, c, cs, stack, ok, w) ==
  LET tk == [tasks EXCEPT ![t] = IdleTask] IN
  IF ~ok
  THEN /\ Effect(cs, servers, tool_to_server_map, stack, tk)
       /\ NoSave
       /\ Return("register_server", args,
                 RegisterResult("error", <<"Couldn't reach the server at ", args.server_url,
                                           " - is it running?">>, 0), w)
  ELSE LET srv == DictSet(servers, args.server_id, c)
           map == SeedTools(tool_to_server_map, cs[c].available_tools, args.server_id)
       IN /\ Effect(cs, srv, map, stack, tk)
          /\ Persist(cs, srv, map)
          /\ Return("register_server", args,
                    RegisterResult("success", <<>>, Len(cs[c].available_tools)), w)

\* An invocation that routes the tools of the connection's cache to its
\* server, as a registration does, and succeeds.
invoke_tool_seeding(t, args, c, cs, stack, w) ==
  /\ Effect(cs, servers, SeedTools(tool_to_server_map, cs[c].available_tools, cs[c].server_id),
            stack, [tasks EXCEPT ![t] = IdleTask])
  /\ Return("execute_tool", args, Returned("success", args.tool_id, <<>>, 0, "out"), w)

\* MCPServerConnection.execute_tool lines 308-326: the invocation on a
\* connection that is active, up to the return or to the await of the session call.
invoke_tool(t, args, c, cs, stack, w) ==
  LET finish(result, sent) ==
        /\ Effect(cs, servers, tool_to_server_map, stack, [tasks EXCEPT ![t] = IdleTask])
        /\ Return("execute_tool", args, result, sent)
  IN IF cs[c].transport_type = "jsonrpc" /\ ~HAS_MCP_CLIENTS
     THEN \E reply \in HttpReplies :
            finish(execute_tool_guard(execute_tool_json_rpc_direct(args.tool_id, reply)),
                   Append(w, [Answered(cs[c], "execute", FALSE, ExecuteAnswer(reply))
                                EXCEPT !.value = ExecuteValue(reply)]))
     ELSE IF cs[c].session # None
     THEN /\ Effect(cs, servers, tool_to_server_map, stack,
                    [tasks EXCEPT ![t] = [pc |-> "call", op |-> "execute_tool",
                                          args |-> args, conn |-> c]])
          /\ Suspend(Append(w, Request(cs[c], "call_tool", FALSE)))
     ELSE finish(Returned("error", None,
                          <<"No active session for MCP server ", cs[c].server_id>>, 0, None), w)

\* execute_tool with the result of connect() ignored.
execute_tool_dispatch_unchecked(t, args, c, cs, stack, ok, w) ==
  /\ NoSave
  /\ invoke_tool(t, args, c, cs, stack, w)

\* MCPServerConnection.execute_tool from the return of connect() on
\* (lines 302-306): a failed connect is reported at once.
execute_tool_dispatch(t, args, c, cs, stack, ok, w) ==
  /\ NoSave
  /\ IF ~ok
     THEN /\ Effect(cs, servers, tool_to_server_map, stack, [tasks EXCEPT ![t] = IdleTask])
          /\ Return("execute_tool", args,
                    Returned("error", None,
                             <<"Failed to connect to MCP server ", cs[c].server_id>>, 0, None),
                    w)
     ELSE invoke_tool(t, args, c, cs, stack, w)

\* connect() called on a connection of the server set returns to its caller.
connect_finish(t, args, c, cs, stack, ok, w) ==
  /\ Effect(cs, servers, tool_to_server_map, stack, [tasks EXCEPT ![t] = IdleTask])
  /\ NoSave
  /\ Return("connect", args, [value |-> ok], w)

\* The caller's code after "await ...connect()".
connect_returned(t, op, args, c, cs, stack, ok, w) ==
  IF op = "register_server"
  THEN register_server_finish(t, args, c, cs, stack, ok, w)
  ELSE IF op = "connect"
  THEN connect_finish(t, args, c, cs, stack, ok, w)
  ELSE execute_tool_dispatch(t, args, c, cs, stack, ok, w)

\* Whether connect() reaches an await with the client libraries present
\* (lines 99-108, 153-165, 178-196).
connect_suspends(conn) ==
  \/ conn.transport_type \in {"jsonrpc", "sse"}
  \/ conn.transport_type = "stdio" /\ conn.connection_params.command # None

\* MCPServerConnection.connect, from its call to its first await or return.
connect_begin(t, op, args, c, cs) ==
  IF ~HAS_MCP_CLIENTS
  THEN \E ping \in PingReplies, list \in ListReplies :
         /\ ping # "ok" => list.kind = "exception"
         /\ LET r == connect_direct(cs[c], ping, list)
            IN connect_returned(t, op, args, c, [cs EXCEPT ![c] = r.conn], exit_stack,
                                r.ok, r.wire)
  ELSE IF AlreadyActive(cs[c])
  THEN connect_returned(t, op, args, c, cs, exit_stack, TRUE, <<>>)
  ELSE IF connect_suspends(cs[c])
  THEN /\ Effect(cs, servers, tool_to_server_map, exit_stack,
                 [tasks EXCEPT ![t] = [pc |-> "connect", op |-> op, args |-> args, conn |-> c]])
       /\ NoSave
       /\ Suspend(<<Request(cs[c], "open", TRUE)>>)
  ELSE connect_returned(t, op, args, c, cs, exit_stack, FALSE, <<>>)

\* register_server without the test of line 618.
NeverRegistered(server_id) == FALSE
\* register_server line 618: "if server_id in self.servers".
AlreadyRegistered(server_id) == DictHas(servers, server_id)

\* MCPConnectionManager.register_server
register_server(t, server_id, server_url, inp) ==
  /\ ret.op = None
  /\ CanStart(t)
  /\ LET args == [server_id |-> server_id, server_url |-> server_url,
                  transport_type |-> inp.transport_type, kwargs |-> inp.kwargs]
     IN IF AlreadyRegistered(server_id)
        THEN /\ NoEffect
             /\ NoSave
             /\ Return("register_server", args,
                       RegisterResult("already_exists",
                                      <<"We already have a server called '", server_id, "'">>,
                                      0), <<>>)
        ELSE LET c == TempConn(1)
                 cs == [x \in 1 .. c |->
                          IF x <= MaxConns THEN conns[x]
                          ELSE NewConnection(server_id, server_url, inp.transport_type, TRUE,
                                             inp.kwargs)]
             IN connect_begin(t, "register_server", args, c, cs)
  /\ UNCHANGED registry_path

\* Urls the agent's register_mcp_server is called with, and those of them
\* that start with "http://" or "https://".
AgentUrls == Urls \cup {"https://h", "h:8500"}
HttpUrls == {"http://h", "https://h"}
\* A test of the url that accepts everything.
AnyUrl(server_url) == TRUE
\* register_mcp_server line 80: server_url.startswith(("http://", "https://")).
StartsWithHttp(server_url) == server_url \in HttpUrls

\* agent.register_mcp_server: the checks of the url and of the command, then
\* the manager's register_server, whose result it returns as it is.
register_mcp_server(t, server_id, server_url, inp) ==
  LET args == [server_id |-> server_id, server_url |-> server_url,
               transport_type |-> inp.transport_type, kwargs |-> inp.kwargs]
      reject(message) ==
        /\ ret.op = None
        /\ CanStart(t)
        /\ NoEffect
        /\ NoSave
        /\ Return("register_mcp_server", args, RegisterResult("error", message, 0), <<>>)
        /\ UNCHANGED registry_path
  IN IF inp.transport_type \in {"jsonrpc", "sse"} /\ ~StartsWithHttp(server_url)
     THEN reject(<<"That URL (", server_url, ") doesn't look right. Need http:// or https://">>)
     ELSE IF inp.transport_type = "stdio" /\ inp.kwargs.command = None
     THEN reject(<<"For STDIO transport, I need a 'command' parameter">>)
     ELSE register_server(t, server_id, server_url, inp)

\* A lookup that falls back to the first server for a tool with no route.
RouteOrFirst(tool_id) ==
  IF DictHas(tool_to_server_map, tool_id) THEN DictGet(tool_to_server_map, tool_id)
  ELSE IF servers # <<>> THEN servers[1][1] ELSE None
\* execute_tool lines 771-778: the server a tool is routed to, if any.
Route(tool_id) ==
  IF DictHas(tool_to_server_map, tool_id) THEN DictGet(tool_to_server_map, tool_id) ELSE None

\* A lookup that falls back to the first server for a server id that is
\* not in the server set.
ServerOrFirst(server_id) ==
  IF DictHas(servers, server_id) THEN DictGet(servers, server_id)
  ELSE IF servers # <<>> THEN servers[1][2] ELSE NoConn
\* execute_tool lines 781-787: the connection of the server a tool is
\* routed to, if the server is in the server set.
ServerOf(server_id) ==
  IF DictHas(servers, server_id) THEN DictGet(servers, server_id) ELSE NoConn

\* MCPConnectionManager.execute_tool, with MCPServerConnection.execute_tool
\* up to its first await or return.
execute_tool(t, tool_id) ==
  /\ ret.op = None
  /\ CanStart(t)
  /\ LET args == [tool_id |-> tool_id]
         server_id == Route(tool_id)
     IN IF server_id = None
        THEN /\ NoEffect
             /\ NoSave
             /\ Return("execute_tool", args,
                       Returned("error", None,
                                <<"Tool '", tool_id, "' is not registered with any server">>,
                                0, None), <<>>)
        ELSE IF ServerOf(server_id) = NoConn
        THEN /\ NoEffect
             /\ NoSave
             /\ Return("execute_tool", args,
                       Returned("error", None,
                                <<"Server '", server_id, "' for tool '", tool_id,
                                  "' is not registered">>, 0, None), <<>>)
        ELSE LET c == ServerOf(server_id)
             IN IF ~conns[c].connection_active
                THEN connect_begin(t, "execute_tool", args, c, conns)
                ELSE execute_tool_dispatch(t, args, c, conns, exit_stack, TRUE, <<>>)
  /\ UNCHANGED registry_path

\* MCPServerConnection.connect called on the connection of a registered
\* server, up to its first await or return.
connect(t, server_id) ==
  /\ ret.op = None
  /\ CanStart(t)
  /\ DictHas(servers, server_id)
  /\ connect_begin(t, "connect", [server_id |-> server_id], DictGet(servers, server_id), conns)
  /\ UNCHANGED registry_path

\* MCPServerConnection.disconnect called on the connection of a registered
\* server: with the manager's exit stack it never awaits, and it returns
\* nothing.
disconnect_call(server_id) ==
  /\ ret.op = None
  /\ DictHas(servers, server_id)
  /\ LET c == DictGet(servers, server_id)
     IN Effect([conns EXCEPT ![c] = disconnect(conns[c])], servers, tool_to_server_map,
               exit_stack, tasks)
  /\ Return("disconnect", [server_id |-> server_id], [value |-> None], <<>>)
  /\ NoSave
  /\ UNCHANGED registry_path

\* Outcomes of entering the transport and session contexts.
OpenOutcomes(conn) == {"raise", "ok"}

\* What one connect() entered on the exit stack: the session context and,
\* for stdio and sse, the transport context under it.
Channel(conn) == [server_id |-> conn.server_id]

\* MCPServerConnection.connect resumed at enter_async_context
\* (lines 108, 165-167, 196-198) up to "await self.session.initialize()".
connect_open(t) ==
  /\ ret.op = None
  /\ remote_up
  /\ tasks[t].pc = "connect"
  /\ LET c == tasks[t].conn
         conn == conns[c]
     IN \E o \in OpenOutcomes(conn) :
          IF o = "raise"
          THEN connect_returned(t, tasks[t].op, tasks[t].args, c,
                                [conns EXCEPT ![c] = disconnect(conn)], exit_stack, FALSE, <<>>)
          ELSE /\ Len(exit_stack) < MaxStack
               /\ Effect([conns EXCEPT ![c] =
                            IF conn.transport_type = "jsonrpc"
                            THEN [conn EXCEPT !.session = "open"]
                            ELSE [conn EXCEPT !.session = "open", !.reader = "streams"]],
                         servers, tool_to_server_map,
                         Append(exit_stack, Channel(conn)),
                         [tasks EXCEPT ![t].pc = "handshake"])
               /\ NoSave
               /\ Suspend(<<Request(conn, "initialize", TRUE)>>)
  /\ UNCHANGED registry_path

\* Outcomes of initialize() followed by the session's "tools/list".
HandshakeReplies ==
  {[kind |-> k, tools |-> <<>>] : k \in {"init_raise", "list_raise"}}
    \cup {[kind |-> "tools", tools |-> l] : l \in ToolLists}

\* MCPServerConnection._list_tools
list_tools_session(conn, reply) ==
  IF conn.session = None THEN conn
  ELSE IF reply.kind = "tools" THEN [conn EXCEPT !.available_tools = reply.tools]
  ELSE conn

\* MCPServerConnection.connect resumed at "await self.session.initialize()"
\* up to its return (lines 110-114, 170-176, 201-207, 213-216).
connect_handshake(t) ==
  /\ ret.op = None
  /\ remote_up
  /\ tasks[t].pc = "handshake"
  /\ LET c == tasks[t].conn
         conn == conns[c]
     IN \E reply \in HandshakeReplies :
          IF reply.kind = "init_raise"
          THEN connect_returned(t, tasks[t].op, tasks[t].args, c,
                                [conns EXCEPT ![c] = disconnect(conn)], exit_stack, FALSE, <<>>)
          ELSE connect_returned(t, tasks[t].op, tasks[t].args, c,
                 [conns EXCEPT ![c] =
                    [list_tools_session(conn, reply) EXCEPT !.connection_active = TRUE]],
                 exit_stack, TRUE,
                 IF conn.session = None THEN <<>>
                 ELSE <<Answered(conn, "tools/list", TRUE, reply.kind)>>)
  /\ UNCHANGED registry_path

\* MCPServerConnection._execute_tool_with_session resumed at the awaited
\* session call, and the return through both execute_tool frames.
call_return(t) ==
  /\ ret.op = None
  /\ remote_up
  /\ tasks[t].pc = "call"
  /\ \E reply \in SessionReplies :
       Return("execute_tool", tasks[t].args,
              execute_tool_guard(execute_tool_with_session(tasks[t].args.tool_id, reply)),
              <<Answered(conns[tasks[t].conn], "call_tool", FALSE, reply)>>)
  /\ Effect(conns, servers, tool_to_server_map, exit_stack, [tasks EXCEPT ![t] = IdleTask])
  /\ NoSave
  /\ UNCHANGED registry_path

\* ------------------------------------------------- environment
\* The remote servers stop answering.
remote_stops ==
  /\ ret.op = None
  /\ remote_up
  /\ remote_up' = FALSE
  /\ UNCHANGED <<HAS_MCP_CLIENTS, conns, servers, tool_to_server_map, exit_stack,
                 registry_path, registry_file, write_failures, tasks, ret, wire>>

\* jsonrpc_utils.parse_jsonrpc_response called with a response text and,
\* or not, the id expected in it.
parse_response(body, expected_id) ==
  /\ ret.op = None
  /\ Return("parse_jsonrpc_response", [body |-> body, expected_id |-> expected_id],
            parse_jsonrpc_response(body, expected_id), <<>>)
  /\ NoEffect
  /\ NoSave
  /\ UNCHANGED registry_path

\* Arguments of the codec's constructors.
ResponseIds == {RequestId, "other", None}
ErrorCodes == {-32601, -32000, 0}
ErrorMessages == {"remote message", ""}
ErrorData == {None, "remote data"}

\* create_jsonrpc_response and create_jsonrpc_error_response return dicts:
\* keys are the members present.  An error response without the data member.
create_error_without_data(error_code, error_message, error_data, request_id) ==
  [keys |-> {"jsonrpc", "id", "error"}, jsonrpc |-> "2.0", id |-> request_id,
   result |-> NoResult,
   error |-> [keys |-> {"code", "message"}, code |-> error_code, message |-> error_message,
              data |-> None]]
create_jsonrpc_response(result, request_id) ==
  [keys |-> {"jsonrpc", "id", "result"}, jsonrpc |-> "2.0", id |-> request_id,
   result |-> result,
   error |-> [keys |-> {}, code |-> 0, message |-> None, data |-> None]]
create_jsonrpc_error_response(error_code, error_message, error_data, request_id) ==
  [keys |-> {"jsonrpc", "id", "error"}, jsonrpc |-> "2.0", id |-> request_id,
   result |-> NoResult,
   error |-> [keys |-> {"code", "message"} \cup (IF error_data # None THEN {"data"} ELSE {}),
              code |-> error_code, message |-> error_message, data |-> error_data]]

\* json.dumps of a response dict, as the text a receiver gets: the members
\* present in the text are the keys of the dict.
dumps(response) ==
  Envelope(IF "jsonrpc" \in response.keys THEN response.jsonrpc ELSE None,
           IF "id" \in response.keys THEN response.id ELSE None,
           "error" \in response.keys,
           IF "error" \in response.keys
           THEN [dict |-> TRUE, has_code |-> "code" \in response.error.keys,
                 code |-> IF "code" \in response.error.keys THEN response.error.code ELSE 0,
                 message |-> IF "message" \in response.error.keys
                             THEN response.error.message ELSE None,
                 data |-> IF "data" \in response.error.keys THEN response.error.data ELSE None]
           ELSE NoError,
           "result" \in response.keys,
           IF "result" \in response.keys THEN response.result ELSE NoResult)

\* A response built by the codec, serialized and parsed back with the id it
\* was built for (test_e2e.py direct_jsonrpc_test reads responses this way).
round_trip_result(result, request_id) ==
  /\ ret.op = None
  /\ Return("round_trip_result", [result |-> result, request_id |-> request_id],
            parse_jsonrpc_response(dumps(create_jsonrpc_response(result, request_id)),
                                   request_id), <<>>)
  /\ NoEffect
  /\ NoSave
  /\ UNCHANGED registry_path
round_trip_error(error_code, error_message, error_data, request_id) ==
  /\ ret.op = None
  /\ Return("round_trip_error",
            [error_code |-> error_code, error_message |-> error_message,
             error_data |-> error_data, request_id |-> request_id],
            parse_jsonrpc_response(
              dumps(create_jsonrpc_error_response(error_code, error_message, error_data,
                                                  request_id)), request_id), <<>>)
  /\ NoEffect
  /\ NoSave
  /\ UNCHANGED registry_path

\* Registry files that were not written by save_registry: their
\* tool_mappings name the server "s2", which their servers lack, or one of
\* their server entries is not made of what MCPServerConnection takes (a
\* transport_type that is no string, a connection_params member named as
\* one of the constructor's own parameters).
ForeignFiles ==
  {[state |-> "ok",
    data |-> [servers |-> srv, tool_mappings |-> <<<<"t1", "s2">>>> \o map]] :
     srv \in {<<>>, <<<<"s1", [url |-> "http://h", transport_type |-> "jsonrpc",
                                connection_params |-> [headers |-> "auth",
                                                       command |-> None]]>>>>},
     map \in {<<>>, <<<<"t2", "s1">>>>}}
    \cup
  {[state |-> "bad_entry", data |-> [servers |-> srv, tool_mappings |-> <<>>]] :
     srv \in {<<>>, <<<<"s1", [url |-> "http://h", transport_type |-> "jsonrpc",
                                connection_params |-> [headers |-> "auth",
                                                       command |-> None]]>>>>}}

\* The file at the registry path is replaced from outside the program;
\* load_registry reads whatever file is there (lines 536-538).
registry_replaced ==
  /\ ret.op = None
  /\ \E file \in ForeignFiles :
       /\ registry_file # file
       /\ registry_file' = file
  /\ UNCHANGED <<HAS_MCP_CLIENTS, conns, servers, tool_to_server_map, exit_stack,
                 registry_path, write_failures, tasks, remote_up, ret, wire>>

\* The caller takes the returned value (call_mcp_tool's "return result");
\* the event loop runs nothing else in between.
deliver ==
  /\ ret.op # None
  /\ ret' = NoRet
  /\ wire' = <<>>
  /\ NoEffect
  /\ NoSave
  /\ UNCHANGED registry_path

\* A coroutine of T is free to run a new call.
Free(T) == \E t \in T : CanStart(t)

\* Calls of the manager's operations started in the coroutines T with
\* arguments from S, K and I, and the resumption of suspended coroutines.
Calls(T, S, K, I) ==
  \/ Free(T) /\ list_servers
  \/ Free(T) /\ list_tools
  \/ Free(T) /\ \E tool_id \in K, server_id \in S : register_tool(tool_id, server_id)
  \/ Free(T) /\ \E tool_id \in K : remove_tool(tool_id)
  \/ Free(T) /\ \E server_id \in S : remove_server(server_id)
  \/ \E t \in T, server_id \in S, server_url \in Urls, inp \in I :
       register_server(t, server_id, server_url, inp)
  \/ \E t \in T, tool_id \in K : execute_tool(t, tool_id)
  \/ \E t \in T : connect_open(t)
  \/ \E t \in T : connect_handshake(t)
  \/ \E t \in T : call_return(t)
  \/ deliver

\* The registry file operations.
Persistence(T) ==
  \/ Free(T) /\ \E path \in RegistryPaths : set_registry_path(path)
  \/ Free(T) /\ \E path \in RegistryPaths \cup {None} : load_registry(path)
  \/ Free(T) /\ save_registry

\* Calls of the methods of the connections of the servers S.
Direct(T, S) ==
  \/ \E t \in T, server_id \in S : connect(t, server_id)
  \/ Free(T) /\ \E server_id \in S : disconnect_call(server_id)

\* One caller at a time: a call is started when the previous one has returned.
Next == Calls({1}, ServerIds, ToolIds, RegInputs)
Spec == Init /\ [][Next]_vars

\* One caller at a time, one server, with the registry file.
NextPersist == Calls({1}, {"s1"}, ToolIds, RegInputs) \/ Persistence({1})
SpecPersist == Init /\ [][NextPersist]_vars

\* Two callers whose calls interleave at the awaits, one server and one tool.
NextConc ==
  \/ Calls(Tasks, {"s1"}, {"t1"}, {i \in RegInputs : i.transport_type = "jsonrpc"})
  \/ Persistence(Tasks)
SpecConc == Init /\ [][NextConc]_vars

\* One caller at a time, and remotes that stop answering.
NextOutage == Calls({1}, {"s1"}, ToolIds, RegInputs) \/ remote_stops
SpecOutage == Init /\ [][NextOutage]_vars

\* One caller at a time, and the shutdown of the manager.
NextShutdown == Calls({1}, {"s1"}, ToolIds, RegInputs) \/ (Free({1}) /\ disconnect_all)
SpecShutdown == Init /\ [][NextShutdown]_vars

\* One caller at a time, one server, and calls on its connection.
NextDirect == Calls({1}, {"s1"}, ToolIds, RegInputs) \/ Direct({1}, {"s1"})
SpecDirect == Init /\ [][NextDirect]_vars

\* Two callers, one server and one tool, and calls on its connection that
\* interleave with the manager's at the awaits.
NextDirectConc ==
  \/ Calls(Tasks, {"s1"}, {"t1"}, {i \in RegInputs : i.transport_type = "jsonrpc"})
  \/ Direct(Tasks, {"s1"})
SpecDirectConc == Init /\ [][NextDirectConc]_vars

\* One caller at a time, two servers with one tool, and the shutdown.
NextTeardown ==
  \/ Calls({1}, ServerIds, {"t1"}, {i \in RegInputs : i.transport_type = "jsonrpc"})
  \/ (Free({1}) /\ disconnect_all)
SpecTeardown == Init /\ [][NextTeardown]_vars

\* One caller at a time, two servers with one tool, reachable by HTTP or
\* spawned by a command, and the registry file.
NextLoad ==
  \/ Calls({1}, ServerIds, {"t1"},
           {i \in RegInputs : i.transport_type = "jsonrpc" \/ i.kwargs.command # None})
  \/ Persistence({1})
SpecLoad == Init /\ [][NextLoad]_vars

\* One caller at a time, one server, and registrations through the agent's
\* tool function.
NextAgent ==
  \/ Calls({1}, {"s1"}, ToolIds, RegInputs)
  \/ \E server_url \in AgentUrls, inp \in RegInputs :
       register_mcp_server(1, "s1", server_url, inp)
SpecAgent == Init /\ [][NextAgent]_vars

\* One caller at a time, one server, and a registry file that may come from
\* outside the program.
NextForeign ==
  \/ Calls({1}, {"s1"}, ToolIds, RegInputs)
  \/ Persistence({1})
  \/ (Free({1}) /\ registry_replaced)
SpecForeign == Init /\ [][NextForeign]_vars

\* One caller at a time, one server, and calls of the codec's parser.
NextCodec ==
  \/ Calls({1}, {"s1"}, {"t1"}, {i \in RegInputs : i.transport_type = "jsonrpc"})
  \/ (Free({1}) /\ \E body \in Bodies, expected_id \in {None, RequestId} :
                      parse_response(body, expected_id))
  \/ (Free({1}) /\ \E result \in ResultValues \cup {NoResult}, request_id \in ResponseIds :
                      round_trip_result(result, request_id))
  \/ (Free({1}) /\ \E error_code \in ErrorCodes, error_message \in ErrorMessages,
                       error_data \in ErrorData, request_id \in ResponseIds :
                      round_trip_error(error_code, error_message, error_data, request_id))
SpecCodec == Init /\ [][NextCodec]_vars

\* ------------------------------------------------- validate_mcp_jsonrpc
METHOD_NOT_FOUND == -32601

\* Answers of the validated server to one request: a transport failure, or
\* a status code (200, or the 404 of the mock server's "Method not found")
\* with a body.
ValidatorReplies ==
  {[exception |-> TRUE, status_code |-> 0, body |-> NotJson]}
    \cup {[exception |-> FALSE, status_code |-> c, body |-> b] : c \in {200, 404}, b \in Bodies}

\* MCP_Tool_Validator.validate_jsonrpc_response; a member whose value is
\* None is a member the response lacks.
validate_jsonrpc_response(response, request_id) ==
  /\ response.dict
  /\ response.jsonrpc = "2.0"
  /\ response.id = request_id
  /\ response.has_result # response.has_error
  /\ response.has_error =>
       /\ response.error.dict
       /\ response.error.has_code
       /\ response.error.message # None

\* MCP_Tool_Validator.send_request: (success, json_response), with the
\* change of the two counters.
send_request(reply, request_id) ==
  IF reply.exception \/ reply.status_code >= 400 \/ ~reply.body.json
  THEN [success |-> FALSE, has_response |-> FALSE, response |-> reply.body,
        success_count |-> 0, error_count |-> 1]
  ELSE LET validated == validate_jsonrpc_response(reply.body, request_id) IN
       [success |-> validated, has_response |-> TRUE, response |-> reply.body,
        success_count |-> IF validated THEN 1 ELSE 0,
        error_count |-> IF validated THEN 0 ELSE 1]

\* MCP_Tool_Validator.test_ping, test_execute_text, test_execute_complex
test_success(reply) == send_request(reply, RequestId)

\* MCP_Tool_Validator.test_invalid_method: the value returned and the counters.
invalid_method_result(reply) ==
  LET r == send_request(reply, RequestId)
      proper == /\ ~r.success
                /\ r.has_response
                /\ r.response.dict
                /\ r.response.has_error
                /\ r.response.error.dict
                /\ r.response.error.has_code
                /\ r.response.error.code = METHOD_NOT_FOUND
  IN [value |-> proper,
      success_count |-> IF proper THEN r.success_count + 1 ELSE r.success_count,
      error_count |-> IF proper THEN r.error_count - 1 ELSE r.error_count]

test_invalid_method(reply) ==
  /\ ret.op = None
  /\ Return("test_invalid_method", [reply |-> reply], invalid_method_result(reply), <<>>)
  /\ NoEffect
  /\ NoSave
  /\ UNCHANGED registry_path

\* What a server that implements a method answers, and what a server
\* answers to a method it does not know.
ResultReplies ==
  {r \in ValidatorReplies :
     /\ ~r.exception
     /\ r.status_code = 200
     /\ r.body = Envelope("2.0", RequestId, FALSE, NoError, TRUE, SomeResult)}
MethodNotFoundReplies ==
  {r \in ValidatorReplies :
     /\ ~r.exception
     /\ r.body.json /\ r.body.dict /\ r.body.jsonrpc = "2.0" /\ r.body.id = RequestId
     /\ r.body.has_error /\ ~r.body.has_result
     /\ r.body.error.dict /\ r.body.error.has_code /\ r.body.error.code = METHOD_NOT_FOUND
     /\ r.body.error.message # None}
\* Answers to the three requests for known methods in run_all_tests.
TestReplies ==
  ResultReplies \cup {[exception |-> TRUE, status_code |-> 0, body |-> NotJson],
                      [exception |-> FALSE, status_code |-> 200, body |-> NotJson]}

\* MCP_Tool_Validator.run_all_tests
run_all_tests(ping, text, complex, invalid) ==
  /\ ret.op = None
  /\ LET ping_result == test_success(ping)
         execute_text_result == test_success(text)
         execute_complex_result == test_success(complex)
         invalid_method == invalid_method_result(invalid)
     IN Return("run_all_tests",
               [ping |-> ping, text |-> text, complex |-> complex, invalid |-> invalid],
               [value |-> /\ ping_result.success
                          /\ execute_text_result.success
                          /\ execute_complex_result.success
                          /\ invalid_method.value,
                success_count |-> ping_result.success_count + execute_text_result.success_count
                                    + execute_complex_result.success_count
                                    + invalid_method.success_count,
                error_count |-> ping_result.error_count + execute_text_result.error_count
                                  + execute_complex_result.error_count
                                  + invalid_method.error_count], <<>>)
  /\ NoEffect
  /\ NoSave
  /\ UNCHANGED registry_path

\* Runs of the validator against a server.
NextValidator ==
  \/ \E reply \in ValidatorReplies : test_invalid_method(reply)
  \/ \E ping \in TestReplies, text \in TestReplies, complex \in TestReplies,
        invalid \in MethodNotFoundReplies \cup TestReplies :
       run_all_tests(ping, text, complex, invalid)
  \/ deliver
SpecValidator == Init /\ [][NextValidator]_vars

\* ------------------------------------------------- AgentWithTaskManager
\* Task states yielded by process_message.
WORKING == "working"
COMPLETED == "completed"
FAILED == "failed"

\* Messages: the metadata is a dict or None; the parts are none, a file
\* part only, a text part, a data part, or a data part whose data
\* json.dumps rejects.
PartKinds == {"none", "file", "text", "data", "bad_data"}
Messages == [metadata : {"dict", None}, parts : PartKinds]

\* process_message lines 50-52 turned into a test that lets every message pass.
HasAnyPart(message) == TRUE
\* process_message lines 50-52: the message has a text part or a data part.
HasTextOrData(message) == message.parts \in {"text", "data", "bad_data"}

\* Outcomes of the runner's calls and of the conversion of its response
\* (lines 76-85).
RunnerOutcomes == {"start_chat_raises", "send_message_raises", "conversion_raises", "response"}

\* The generator suspended at a yield: pc is the yield statement, yielded
\* the task states it has yielded so far.
AtYield(pc, message, yielded) ==
  [pc |-> pc, op |-> "process_message", args |-> [message |-> message, yielded |-> yielded],
   conn |-> NoConn]

\* AgentWithTaskManager.process_message from its call to its first yield;
\* AgentTaskManager.process_message hands each item on as it comes.
process_message(t, message) ==
  /\ ret.op = None
  /\ CanStart(t)
  /\ tasks' = [tasks EXCEPT ![t] =
                 IF message.metadata = None THEN AtYield("line 105", message, <<FAILED>>)
                 ELSE IF ~HasTextOrData(message) THEN AtYield("line 58", message, <<FAILED>>)
                 ELSE IF message.parts = "bad_data"
                 THEN AtYield("line 105", message, <<FAILED>>)
                 ELSE AtYield("line 72", message, <<WORKING>>)]
  /\ UNCHANGED <<HAS_MCP_CLIENTS, conns, servers, tool_to_server_map, exit_stack,
                 registry_path, registry_file, write_failures, remote_up, ret, wire>>

\* The generator resumed at its yield, up to the next yield or to its end.
process_message_resumed(t) ==
  /\ ret.op = None
  /\ tasks[t].op = "process_message"
  /\ LET message == tasks[t].args.message
         yielded == tasks[t].args.yielded
     IN IF tasks[t].pc = "line 72"
        THEN /\ \E outcome \in RunnerOutcomes :
                  tasks' = [tasks EXCEPT ![t] =
                              IF outcome = "response"
                              THEN AtYield("line 87", message, Append(yielded, COMPLETED))
                              ELSE AtYield("line 96", message, Append(yielded, FAILED))]
             /\ UNCHANGED <<ret, wire>>
        ELSE /\ tasks' = [tasks EXCEPT ![t] = IdleTask]
             /\ Return("process_message", [message |-> message],
                       [yielded |-> yielded, raised |-> FALSE], <<>>)
  /\ UNCHANGED <<HAS_MCP_CLIENTS, conns, servers, tool_to_server_map, exit_stack,
                 registry_path, registry_file, write_failures, remote_up>>

\* Messages processed by the agent, two tasks at a time.
NextTask ==
  \/ \E t \in Tasks, message \in Messages : process_message(t, message)
  \/ \E t \in Tasks : process_message_resumed(t)
  \/ deliver
SpecTask == Init /\ [][NextTask]_vars

\* ================================================================ claims
RegistryState == <<servers, tool_to_server_map>>
ManagerState ==
  <<conns, servers, tool_to_server_map, exit_stack, registry_path, registry_file, tasks>>
Returns(op) == ret.op = op
Status == ret.result.status
InvokeMethods == {"execute", "call_tool"}
Invoked(w) == \E i \in DOMAIN w : w[i].method \in InvokeMethods

\* C1: registration atomicity.  No step of a register_server call that does
\* not end in success changes the server set or the routing table; the call
\* then returns an error result with a message; and a call returns success
\* only with the new connection active, that is after connect() succeeded.
C1_RegistrationAtomicity ==
  [][/\ (\E t \in Tasks : tasks'[t].op = "register_server") => UNCHANGED RegistryState
     /\ Returns("register_server")' =>
          IF Status' = "success"
          THEN /\ DictHas(servers', ret'.args.server_id)
               /\ conns'[DictGet(servers', ret'.args.server_id)].connection_active
          ELSE /\ UNCHANGED RegistryState
               /\ Status' \in {"error", "already_exists"}
               /\ ret'.result.message # <<>>]_vars

\* A registration that failed to connect has returned, with servers and
\* routes registered before it.
C1_Witness ==
  /\ Returns("register_server")
  /\ Status = "error"
  /\ servers # <<>>
  /\ tool_to_server_map # <<>>

\* C2: no dangling routes.  Every tool id of the routing table maps to a
\* server id of the server set.
C2_NoDanglingRoutes ==
  \A i \in DOMAIN tool_to_server_map : DictHas(servers, tool_to_server_map[i][2])

\* A server with routed tools has been removed while another server keeps its routes.
C2_Witness ==
  /\ Returns("remove_server")
  /\ Status = "success"
  /\ ret.result.removed # <<>>
  /\ tool_to_server_map # <<>>

\* C3: removing a server severs its channel.  When remove_server succeeds for
\* a server whose connection was active on an open session, no channel opened
\* for that server is left on the exit stack.
C3_RemovalSeversChannel ==
  [][(/\ Returns("remove_server")'
      /\ Status' = "success"
      /\ conns[DictGet(servers, ret'.args.server_id)].connection_active
      /\ conns[DictGet(servers, ret'.args.server_id)].session = "open")
       => \A i \in DOMAIN exit_stack' : exit_stack'[i].server_id # ret'.args.server_id]_vars

\* C4: execute never raises.  A returned execute_tool result is a dict with
\* status success or error, an error carrying a message; a call on a
\* connection that is not active starts with connect(); and while the
\* connection is not active after connect(), the result is an error and the
\* tool is not invoked.
C4_ExecuteNeverRaises ==
  [][/\ Returns("execute_tool")' =>
          /\ ~ret'.result.raised
          /\ Status' \in {"success", "error"}
          /\ Status' = "error" => ret'.result.message # <<>>
     /\ (Returns("execute_tool")' /\ Route(ret'.args.tool_id) # None
          /\ DictHas(servers, Route(ret'.args.tool_id))) =>
          LET server_id == Route(ret'.args.tool_id) IN
          /\ ~conns'[DictGet(servers', server_id)].connection_active =>
               Status' = "error" /\ ~Invoked(wire')
          /\ ((\A t \in Tasks : tasks[t].pc = "idle")
               /\ ~conns[DictGet(servers, server_id)].connection_active
               /\ wire' # <<>>) => wire'[1].method = "ping"
     /\ \A t \in Tasks :
          /\ (tasks[t].pc = "idle" /\ tasks'[t].op = "execute_tool"
               /\ ~conns[DictGet(servers, Route(tasks'[t].args.tool_id))].connection_active)
               => tasks'[t].pc = "connect" /\ wire'[1].method = "open"
          /\ tasks'[t].pc = "call" =>
               /\ conns'[tasks'[t].conn].connection_active
               /\ Invoked(wire') \/ UNCHANGED <<tasks, conns>>]_vars

\* A call on a connection that was not active has returned the error of a
\* failed connect, after the ping of connect() and nothing else was sent.
C4_Witness ==
  /\ Returns("execute_tool")
  /\ Status = "error"
  /\ ret.result.message[1] = "Failed to connect to MCP server "
  /\ Len(wire) = 1
  /\ wire[1].method = "ping"

Resumable(t) == ENABLED (connect_open(t) \/ connect_handshake(t) \/ call_return(t))
Connecting(t) == tasks[t].pc \in {"connect", "handshake"}
Quiet == \A t \in Tasks : tasks[t].pc = "idle"

\* C5: bounded local wait.  An execute call that waits for the remote can
\* always be resumed by a step of its own, whether the remote answers or not.
C5_BoundedLocalWait ==
  \A t \in Tasks : (tasks[t].op = "execute_tool" /\ tasks[t].pc # "idle") => Resumable(t)

\* C6: at most one connection attempt is in flight per server connection.
C6_SingleConnectInFlight ==
  \A t, u \in Tasks : (t # u /\ Connecting(t) /\ Connecting(u)) => tasks[t].conn # tasks[u].conn

\* C7: a register_server call returns success only for a server id that is
\* not in the server set when it returns, so that no registered connection
\* is replaced.
C7_RegistrationRace ==
  [][(Returns("register_server")' /\ Status' = "success")
       => ~DictHas(servers, ret'.args.server_id)]_vars

\* C8: unknown tool.  execute_tool for a tool id with no routing entry
\* returns the error "Tool '<tool_id>' is not registered with any server",
\* sends nothing to any server and changes no state.
C8_UnknownTool ==
  [][\A tool_id \in ToolIds :
       (/\ Quiet
        /\ Returns("execute_tool")'
        /\ ret'.args.tool_id = tool_id
        /\ ~DictHas(tool_to_server_map, tool_id))
         => /\ ret'.result = Returned("error", None,
                                      <<"Tool '", tool_id,
                                        "' is not registered with any server">>, 0, None)
            /\ wire' = <<>>
            /\ UNCHANGED <<ManagerState, write_failures>>]_vars

\* An unknown tool has been refused while a server and another tool are
\* registered and the registry file is written.
C8_Witness ==
  /\ Returns("execute_tool")
  /\ ~DictHas(tool_to_server_map, ret.args.tool_id)
  /\ servers # <<>>
  /\ tool_to_server_map # <<>>
  /\ registry_file.state = "ok"

\* C9: duplicate registration.  register_server with a server id of the
\* server set returns already_exists, sends nothing, and leaves the
\* connections, the server set, the routing table and the registry file as
\* they were.
C9_DuplicateRegistration ==
  [][(/\ Quiet
      /\ Returns("register_server")'
      /\ DictHas(servers, ret'.args.server_id))
       => /\ Status' = "already_exists"
          /\ wire' = <<>>
          /\ UNCHANGED <<ManagerState, write_failures>>]_vars

\* A duplicate registration has been refused with a registry file on disk.
C9_Witness ==
  /\ Returns("register_server")
  /\ Status = "already_exists"
  /\ registry_file.state = "ok"
  /\ registry_file.data.servers # <<>>

\* C10: remove_server.  For an absent id: an error, and nothing changes.
\* Otherwise: the server is gone, the reported tools are exactly the tool
\* ids routed to it before the call, their entries are gone from the routing
\* table and from list_tools, and the entries of the other servers, and the
\* other servers, are as before.
C10_RemoveServer ==
  [][Returns("remove_server")' =>
       LET server_id == ret'.args.server_id
           routed == {i \in DOMAIN tool_to_server_map : tool_to_server_map[i][2] = server_id}
           removed == ret'.result.removed
           listed == ToolList'
       IN IF ~DictHas(servers, server_id)
          THEN Status' = "error" /\ UNCHANGED <<ManagerState, write_failures>>
          ELSE /\ Status' = "success"
               /\ ~DictHas(servers', server_id)
               /\ \A s \in ServerIds \ {server_id} : DictHas(servers', s) <=> DictHas(servers, s)
               /\ {removed[j] : j \in DOMAIN removed} = {tool_to_server_map[i][1] : i \in routed}
               /\ Len(removed) = Cardinality(routed)
               /\ tool_to_server_map' =
                    SelectSeq(tool_to_server_map, LAMBDA e : e[2] # server_id)
               /\ \A k \in DOMAIN listed :
                    /\ listed[k].server_id # server_id
                    /\ \A j \in DOMAIN removed : listed[k].name # removed[j]]_vars

\* A server has been removed with one tool routed to it, and the other
\* server keeps its one route.
C10_Witness ==
  /\ Returns("remove_server")
  /\ Status = "success"
  /\ Len(ret.result.removed) = 1
  /\ Len(tool_to_server_map) = 1
  /\ Len(servers) = 1

ActiveOf(cs, srv, server_id) == cs[DictGet(srv, server_id)].connection_active
ToolsReported(cs, srv, server_id) == cs[DictGet(srv, server_id)].available_tools

\* C11: a successful registration makes the server's tools usable.  After
\* register_server succeeds the server is in the server set and every tool
\* it reported is routed to it and listed with its server id; an execute of
\* a routed tool talks to the server the tool is routed to; and when the
\* remote answers the invocation with a result, execute returns success
\* with that tool id.
C11_RegisteredToolsUsable ==
  [][/\ (Returns("register_server")' /\ Status' = "success") =>
          LET server_id == ret'.args.server_id
              listed == ToolList'
          IN /\ DictHas(servers', server_id)
             /\ \A i \in DOMAIN ToolsReported(conns', servers', server_id) :
                  LET tool_id == ToolsReported(conns', servers', server_id)[i] IN
                  /\ DictHas(tool_to_server_map', tool_id)
                  /\ DictGet(tool_to_server_map', tool_id) = server_id
                  /\ \E k \in DOMAIN listed :
                       listed[k].name = tool_id /\ listed[k].server_id = server_id
     /\ Returns("execute_tool")' =>
          \A i \in DOMAIN wire' :
            /\ wire'[i].server_id = DictGet(tool_to_server_map, ret'.args.tool_id)
            /\ (wire'[i].method \in InvokeMethods /\ wire'[i].answer = "result") =>
                 Status' = "success" /\ ret'.result.tool_id = ret'.args.tool_id]_vars

\* The channels one server's connects left open on the exit stack.
ChannelsOf(stack, server_id) ==
  Cardinality({i \in DOMAIN stack : stack[i].server_id = server_id})
\* A connect() resumed at the handshake returns false to its caller in this step.
HandshakeFails(t) ==
  /\ tasks[t].pc = "handshake"
  /\ ret'.op # None
  /\ ret'.result.status = "error"

\* C12: when connect() fails after the session context was opened (the
\* session's initialize raises), on return the connection is disconnected,
\* the channel it opened is closed, and it holds no session and no streams.
C12_FailedConnectCleansUp ==
  [][\A t \in Tasks :
       HandshakeFails(t) =>
         LET server_id == conns[tasks[t].conn].server_id IN
         /\ ChannelsOf(exit_stack', server_id) < ChannelsOf(exit_stack, server_id)
         /\ (tasks[t].op = "execute_tool" /\ DictHas(servers', server_id)) =>
              LET conn == conns'[DictGet(servers', server_id)] IN
              /\ ~conn.connection_active
              /\ conn.session = None
              /\ conn.reader = None]_vars

\* C13: when the ping and the open succeed but the tool listing fails (remote
\* error, HTTP error, exception), connect() returns false and the connection
\* is disconnected: a registration relying on it reports an error.
C13_ListingIsPartOfConnect ==
  [][\A i \in DOMAIN wire' :
       (wire'[i].method = "tools/list" /\ wire'[i].answer # "tools") =>
         /\ DictHas(servers', wire'[i].server_id) =>
              ~ActiveOf(conns', servers', wire'[i].server_id)
         /\ Returns("register_server")' => Status' = "error"]_vars

\* No coroutine is suspended in a call.
AllIdle == \A t \in Tasks : tasks[t].pc = "idle"

\* C14: connect() called on a connection that is already active returns true
\* at once, sends nothing to the remote (no ping, no handshake, no tool
\* listing) and leaves state, session and tool cache unchanged.
C14_ConnectIdempotent ==
  [][(/\ AllIdle
      /\ Returns("connect")'
      /\ ActiveOf(conns, servers, ret'.args.server_id)) =>
        /\ ret'.result.value = TRUE
        /\ wire' = <<>>
        /\ conns' = conns
        /\ exit_stack' = exit_stack
        /\ tasks' = tasks]_vars
\* connect() has returned true from an active connection without a request.
C14_Witness ==
  /\ Returns("connect")
  /\ ret.result.value = TRUE
  /\ wire = <<>>
  /\ ActiveOf(conns, servers, ret.args.server_id)
  /\ conns[DictGet(servers, ret.args.server_id)].available_tools # <<>>

\* C15: disconnect() raises nothing and leaves the connection disconnected
\* after each call, whatever its state before (active, disconnected, or in
\* the middle of a connect); on a disconnected connection it changes nothing,
\* so a second call in a row is harmless.
C15_DisconnectIdempotent ==
  [][Returns("disconnect")' =>
       LET server_id == ret'.args.server_id
           c == DictGet(servers, server_id)
       IN /\ ret'.result.value = None
          /\ ~ActiveOf(conns', servers', server_id)
          /\ ~conns[c].connection_active =>
               /\ conns' = conns
               /\ exit_stack' = exit_stack]_vars
\* disconnect() has returned from a call on a connection that was already
\* disconnected: a connect() of it, started after an earlier disconnect(),
\* is still waiting for the handshake.
C15_Witness ==
  /\ Returns("disconnect")
  /\ DictHas(servers, ret.args.server_id)
  /\ ~ActiveOf(conns, servers, ret.args.server_id)
  /\ \E t \in Tasks :
       /\ tasks[t].pc = "handshake"
       /\ tasks[t].op = "connect"
       /\ tasks[t].conn = DictGet(servers, ret.args.server_id)

\* The server's connection is in the server set and active.
IsActive(cs, srv, server_id) == DictHas(srv, server_id) /\ ActiveOf(cs, srv, server_id)
\* A connect() of the server's connection runs in this step: it sends the
\* ping, or it is resumed at the open or at the handshake.
ConnectRuns(server_id, pcs, answers) ==
  \/ \E i \in DOMAIN wire' :
       /\ wire'[i].server_id = server_id
       /\ wire'[i].method = "ping"
       /\ wire'[i].answer \in answers
  \/ \E t \in Tasks :
       /\ tasks[t].pc \in pcs
       /\ conns[tasks[t].conn].server_id = server_id
       /\ tasks'[t].pc # tasks[t].pc
ConnectSucceeds(server_id) == ConnectRuns(server_id, {"handshake"}, {"ok"})
ConnectFails(server_id) ==
  ConnectRuns(server_id, {"connect", "handshake"}, {"exception", "http_error", "invalid_json"})

\* C16: a connection becomes active only as the outcome of a successful
\* connect(), and goes back to disconnected only through disconnect() or a
\* failed connect; a tool invocation on an active connection (failed or not),
\* list_servers, list_tools, remove_tool and register_tool leave it as it was.
C16_StateEdges ==
  [][\A server_id \in ServerIds :
       /\ (~IsActive(conns, servers, server_id) /\ IsActive(conns', servers', server_id)) =>
            ConnectSucceeds(server_id)
       /\ (IsActive(conns, servers, server_id) /\ DictHas(servers', server_id)
             /\ ~ActiveOf(conns', servers', server_id)) =>
            \/ Returns("disconnect")' /\ ret'.args.server_id = server_id
            \/ ConnectFails(server_id)
       /\ (ret'.op \in {"list_servers", "list_tools", "remove_tool", "register_tool",
                        "execute_tool"}
             /\ IsActive(conns, servers, server_id)) =>
            IsActive(conns', servers', server_id)]_vars
\* A tool invocation on an active connection has failed, and the connection
\* is still active.
C16_Witness ==
  /\ Returns("execute_tool")
  /\ Status = "error"
  /\ Invoked(wire)
  /\ \E server_id \in ServerIds :
       /\ IsActive(conns, servers, server_id)
       /\ \A i \in DOMAIN wire : wire[i].server_id = server_id

\* C17: after disconnect_all every connection of the server set is
\* disconnected, so that list_servers reports none active and a later execute
\* reconnects; a second disconnect_all raises nothing and changes nothing.
C17_ShutdownDisconnects ==
  [][Returns("disconnect_all")' =>
       /\ \A server_id \in ServerIds : ~IsActive(conns', servers', server_id)
       /\ \A i \in DOMAIN ServerList' : ~ServerList'[i].active
       /\ exit_stack = <<>> =>
            /\ ret'.result.value = FALSE
            /\ ManagerState' = ManagerState]_vars

\* C18: when the close of some channel fails during disconnect_all, the close
\* of every other channel is still attempted: after it, whether it raised or
\* not, no channel is left on the manager's exit stack and no connection
\* holds a session that is still open.
C18_TeardownTolerant ==
  [][Returns("disconnect_all")' =>
       /\ exit_stack' = <<>>
       /\ \A c \in ConnIds : IsObject(conns'[c]) => conns'[c].session # "open"]_vars
\* disconnect_all has raised after closing the sessions of two servers.
C18_Witness ==
  /\ Returns("disconnect_all")
  /\ ret.result.value = TRUE
  /\ exit_stack = <<>>
  /\ \A server_id \in ServerIds :
       /\ DictHas(servers, server_id)
       /\ conns[DictGet(servers, server_id)].session = "closed"

\* The call that runs in this step is an execute_tool routed to server_id.
ExecutesOn(server_id) ==
  \/ /\ Returns("execute_tool")'
     /\ DictHas(tool_to_server_map, ret'.args.tool_id)
     /\ DictGet(tool_to_server_map, ret'.args.tool_id) = server_id
  \/ \E t \in Tasks :
       /\ tasks[t].pc # "idle"
       /\ tasks'[t].pc # tasks[t].pc
       /\ tasks[t].op = "execute_tool"
       /\ DictHas(tool_to_server_map, tasks[t].args.tool_id)
       /\ DictGet(tool_to_server_map, tasks[t].args.tool_id) = server_id

\* C19: after load_registry has rebuilt the servers, every loaded connection
\* is disconnected and no remote has been contacted; a server of the server
\* set becomes active only in an execute routed to it, the others stay as
\* they are.
C19_LazyReconnect ==
  [][/\ (Returns("load_registry")' /\ ret'.result.value = TRUE) =>
          /\ \A server_id \in ServerIds : ~IsActive(conns', servers', server_id)
          /\ wire' = <<>>
          /\ exit_stack' = exit_stack
     /\ \A server_id \in ServerIds :
          (/\ DictHas(servers, server_id)
           /\ ~ActiveOf(conns, servers, server_id)
           /\ IsActive(conns', servers', server_id)) => ExecutesOn(server_id)]_vars
\* An execute has connected the server it is routed to, and the other loaded
\* server is still disconnected.
C19_Witness ==
  /\ Returns("execute_tool")
  /\ Status = "success"
  /\ \E i \in DOMAIN wire : wire[i].method = "ping"
  /\ \E server_id \in ServerIds :
       /\ DictGet(tool_to_server_map, ret.args.tool_id) = server_id
       /\ IsActive(conns, servers, server_id)
       /\ \E other \in ServerIds \ {server_id} :
            DictHas(servers, other) /\ ~ActiveOf(conns, servers, other)

\* The registry as the manager holds it: per server id its url, transport
\* and connection parameters, and the routes, without their order.
RegistryOf(cs, srv, map) ==
  [servers |-> {<<srv[i][1], cs[srv[i][2]].server_url, cs[srv[i][2]].transport_type,
                  cs[srv[i][2]].connection_params>> : i \in DOMAIN srv},
   tool_mappings |-> {<<map[i][1], map[i][2]>> : i \in DOMAIN map}]
\* The registry as a file holds it.
RegistryIn(file) ==
  [servers |-> {<<file.data.servers[i][1], file.data.servers[i][2].url,
                  file.data.servers[i][2].transport_type,
                  file.data.servers[i][2].connection_params>> :
                i \in DOMAIN file.data.servers},
   tool_mappings |-> {<<file.data.tool_mappings[i][1], file.data.tool_mappings[i][2]>> :
                      i \in DOMAIN file.data.tool_mappings}]

\* C20: save_registry followed by load_registry of the same file gives back
\* the same server ids, each with the same url, transport and connection
\* parameters, and the same routes: a successful save writes the registry the
\* manager holds, and a successful load makes the manager hold the registry
\* of the file.
C20_RoundTrip ==
  [][/\ (Returns("save_registry")' /\ ret'.result.value = TRUE) =>
          /\ registry_file'.state = "ok"
          /\ RegistryIn(registry_file') = RegistryOf(conns, servers, tool_to_server_map)
          /\ RegistryOf(conns', servers', tool_to_server_map')
               = RegistryOf(conns, servers, tool_to_server_map)
     /\ (Returns("load_registry")' /\ ret'.result.value = TRUE) =>
          /\ RegistryOf(conns', servers', tool_to_server_map') = RegistryIn(registry_file)
          /\ registry_file' = registry_file]_vars
\* A registry of two servers with different connection parameters and a
\* route has been loaded from the registry file.
C20_Witness ==
  /\ Returns("load_registry")
  /\ ret.result.value = TRUE
  /\ Len(servers) = 2
  /\ conns[servers[1][2]].connection_params # conns[servers[2][2]].connection_params
  /\ tool_to_server_map # <<>>
  /\ \A server_id \in ServerIds : ~IsActive(conns, servers, server_id)
  /\ RegistryIn(registry_file) = RegistryOf(conns, servers, tool_to_server_map)

\* C21: load_registry on a registry path where no file exists yields the
\* empty snapshot: afterwards the server set and the routing table are
\* empty, whatever they held before.
C21_FirstRunEmptySnapshot ==
  [][(/\ Returns("load_registry")'
      /\ registry_path' # None
      /\ registry_file.state = "missing") =>
        /\ servers' = <<>>
        /\ tool_to_server_map' = <<>>]_vars

\* C22: when the write of the registry file fails during register_server,
\* register_tool, remove_tool or remove_server, the operation still returns
\* its success result and the change it made in memory is kept.
C22_BestEffortPersistence ==
  [][write_failures' > write_failures =>
       /\ Returns("register_server")' =>
            /\ Status' = "success"
            /\ DictHas(servers', ret'.args.server_id)
            /\ \A i \in DOMAIN ToolsReported(conns', servers', ret'.args.server_id) :
                 DictHas(tool_to_server_map',
                         ToolsReported(conns', servers', ret'.args.server_id)[i])
       /\ Returns("register_tool")' =>
            /\ Status' = "success"
            /\ DictHas(tool_to_server_map', ret'.args.tool_id)
            /\ DictGet(tool_to_server_map', ret'.args.tool_id) = ret'.args.server_id
       /\ Returns("remove_tool")' =>
            /\ Status' = "success"
            /\ ~DictHas(tool_to_server_map', ret'.args.tool_id)
            /\ servers' = servers
       /\ Returns("remove_server")' =>
            /\ Status' = "success"
            /\ ~DictHas(servers', ret'.args.server_id)
            /\ \A i \in DOMAIN tool_to_server_map' :
                 tool_to_server_map'[i][2] # ret'.args.server_id]_vars
\* A registration has succeeded although its write left the file unusable.
C22_Witness ==
  /\ Returns("register_server")
  /\ Status = "success"
  /\ registry_path # None
  /\ registry_file.state = "corrupt"
  /\ DictHas(servers, ret.args.server_id)
  /\ tool_to_server_map # <<>>

\* The operations that change the registry and save it.
Mutations == {"register_server", "register_tool", "remove_tool", "remove_server"}

\* C23: with a registry path set and the write succeeding, after every
\* successful register_server, register_tool, remove_tool and remove_server
\* the registry file holds the servers (url, transport, connection
\* parameters) and the routes the manager holds at that moment.
C23_FileTracksMemory ==
  [][(/\ ret'.op \in Mutations
      /\ Status' = "success"
      /\ registry_path # None
      /\ write_failures' = write_failures) =>
        /\ registry_file'.state = "ok"
        /\ RegistryIn(registry_file') = RegistryOf(conns', servers', tool_to_server_map')]_vars
\* A server has been removed while another stays, and the file holds what is left.
C23_Witness ==
  /\ Returns("remove_server")
  /\ Status = "success"
  /\ ret.result.removed # <<>>
  /\ registry_path # None
  /\ registry_file.state = "ok"
  /\ servers # <<>>
  /\ RegistryIn(registry_file) = RegistryOf(conns, servers, tool_to_server_map)

\* A registration input that the checks of the url and of the command refuse.
InvalidInput(args) ==
  \/ args.transport_type \in {"jsonrpc", "sse"} /\ args.server_url \notin HttpUrls
  \/ args.transport_type = "stdio" /\ args.kwargs.command = None

C25_RemoveToolFrame ==
  [][Returns("remove_tool")' =>
       LET tool_id == ret'.args.tool_id IN
       IF ~DictHas(tool_to_server_map, tool_id)
       THEN /\ Status' = "error"
            /\ ManagerState' = ManagerState
       ELSE /\ Status' = "success"
            /\ tool_to_server_map'
                 = SelectSeq(tool_to_server_map, LAMBDA e : e[1] # tool_id)
            /\ Len(tool_to_server_map') = Len(tool_to_server_map) - 1
            /\ servers' = servers
            /\ conns' = conns
            /\ exit_stack' = exit_stack]_vars
\* A route has been removed; the other route and the server that reported
\* the removed tool are still there, the server active with the tool cached.
C25_Witness ==
  /\ Returns("remove_tool")
  /\ Status = "success"
  /\ tool_to_server_map # <<>>
  /\ \E server_id \in ServerIds :
       /\ IsActive(conns, servers, server_id)
       /\ SeqHas(ToolsReported(conns, servers, server_id), ret.args.tool_id)

\* C26: a tool id has at most one route; when a registration (of a server
\* reporting the tool, or register_tool) claims a tool id, the route points
\* to that registrant afterwards, also when it pointed to another server
\* before; execute of a tool id talks only to the server of its route.
C26_LastRegistrationWins ==
  [][/\ \A i, j \in DOMAIN tool_to_server_map' :
          tool_to_server_map'[i][1] = tool_to_server_map'[j][1] => i = j
     /\ (Returns("register_tool")' /\ Status' = "success") =>
          \E i \in DOMAIN tool_to_server_map' :
            tool_to_server_map'[i] = <<ret'.args.tool_id, ret'.args.server_id>>
     /\ (Returns("register_server")' /\ Status' = "success") =>
          \A k \in DOMAIN ToolsReported(conns', servers', ret'.args.server_id) :
            \E i \in DOMAIN tool_to_server_map' :
              tool_to_server_map'[i]
                = <<ToolsReported(conns', servers', ret'.args.server_id)[k],
                    ret'.args.server_id>>
     /\ Returns("execute_tool")' =>
          \A i \in DOMAIN wire' :
            \E j \in DOMAIN tool_to_server_map :
              tool_to_server_map[j] = <<ret'.args.tool_id, wire'[i].server_id>>]_vars
\* A server has been registered with a tool that an earlier server also
\* reported, and the route of the tool points to the new server.
C26_Witness ==
  /\ Returns("register_server")
  /\ Status = "success"
  /\ \E other \in ServerIds \ {ret.args.server_id}, tool_id \in ToolIds :
       /\ DictHas(servers, other)
       /\ SeqHas(ToolsReported(conns, servers, other), tool_id)
       /\ SeqHas(ToolsReported(conns, servers, ret.args.server_id), tool_id)
       /\ \E i \in DOMAIN tool_to_server_map :
            tool_to_server_map[i] = <<tool_id, ret.args.server_id>>

\* The ids list_servers lists and the tool names list_tools lists, in order.
ListedServers(list) == [i \in DOMAIN list |-> list[i].id]
ListedTools(list) == [i \in DOMAIN list |-> list[i].name]
\* The tool ids whose route points to a server of the server set, in the
\* order of the routing table.
RoutedTools(srv, map) == KeySeq(SelectSeq(map, LAMBDA e : DictHas(srv, e[2])))
\* Entries of both listings keep their relative order from old to new, and
\* an entry of new that old lacks comes after all those old had.
KeepsOrder(old, new) ==
  \A i, j \in DOMAIN new :
    /\ (SeqHas(old, new[i]) /\ SeqHas(old, new[j]) /\ IndexOf(old, new[i]) < IndexOf(old, new[j]))
         => i < j
    /\ (SeqHas(old, new[i]) /\ ~SeqHas(old, new[j])) => i < j

\* C27: list_servers and list_tools list the entries in the order of their
\* registration, never sorted: across every register and remove operation
\* the entries already listed keep their relative order and a newly
\* registered one comes last, and each call returns that order.
C27_ListingOrder ==
  [][/\ KeepsOrder(KeySeq(servers), KeySeq(servers'))
     /\ KeepsOrder(RoutedTools(servers, tool_to_server_map),
                   RoutedTools(servers', tool_to_server_map'))
     /\ Returns("list_servers")' => ListedServers(ret'.result.servers) = KeySeq(servers')
     /\ Returns("list_tools")' =>
          ListedTools(ret'.result.tools) = RoutedTools(servers', tool_to_server_map')]_vars
\* list_servers has listed "s2", registered first, before "s1".
C27_Witness ==
  /\ Returns("list_servers")
  /\ ListedServers(ret.result.servers) = <<"s2", "s1">>
  /\ KeySeq(tool_to_server_map) = <<"t2", "t1">>

\* C28: when the route of a tool points to a server id that is not in the
\* server set (a loaded registry file whose tool_mappings names a server its
\* servers lack), execute of the tool returns the error that the server is
\* not registered, without a request to any server and without raising.
C28_DefensiveRoutingCheck ==
  [][(/\ Returns("execute_tool")'
      /\ DictHas(tool_to_server_map, ret'.args.tool_id)
      /\ ~DictHas(servers, DictGet(tool_to_server_map, ret'.args.tool_id))) =>
        /\ ~ret'.result.raised
        /\ Status' = "error"
        /\ ret'.result.message
             = <<"Server '", DictGet(tool_to_server_map, ret'.args.tool_id), "' for tool '",
                 ret'.args.tool_id, "' is not registered">>
        /\ wire' = <<>>
        /\ ManagerState' = ManagerState]_vars
\* An execute has been refused because the server of the route is missing,
\* while another server is registered.
C28_Witness ==
  /\ Returns("execute_tool")
  /\ Status = "error"
  /\ DictHas(tool_to_server_map, ret.args.tool_id)
  /\ ~DictHas(servers, DictGet(tool_to_server_map, ret.args.tool_id))
  /\ servers # <<>>
  /\ wire = <<>>

\* C29: list_tools returns one entry for each route whose server is in the
\* server set and none for the others, each with the tool name, the server
\* id of the route and that server's transport, and with the description
\* cached from the server when it has one; it changes no state and sends
\* nothing.
C29_ListToolsJoin ==
  [][Returns("list_tools")' =>
       LET listed == ret'.result.tools
           kept == SelectSeq(tool_to_server_map, LAMBDA e : DictHas(servers, e[2]))
       IN /\ Len(listed) = Len(kept)
          /\ \A i \in DOMAIN kept :
               LET conn == conns[DictGet(servers, kept[i][2])] IN
               /\ listed[i].name = kept[i][1]
               /\ listed[i].server_id = kept[i][2]
               /\ listed[i].transport_type = conn.transport_type
               /\ SeqHas(conn.available_tools, kept[i][1]) =>
                    listed[i].description = <<"description from the server">>
          /\ wire' = <<>>
          /\ ManagerState' = ManagerState
          /\ registry_file' = registry_file]_vars
\* list_tools has skipped a route whose server is missing and listed another
\* with the description its server reported.
C29_Witness ==
  /\ Returns("list_tools")
  /\ Len(ret.result.tools) = 1
  /\ Len(tool_to_server_map) = 2
  /\ ret.result.tools[1].description = <<"description from the server">>

\* A response envelope with the version marker "2.0" that carries an error
\* object with a code, its id a string or null.
ErrorEnvelope(body) ==
  /\ body.json
  /\ body.dict
  /\ body.jsonrpc = "2.0"
  /\ body.has_error
  /\ body.error.dict
  /\ body.error.has_code

\* C30: for every response envelope with version marker "2.0" that carries
\* an error object, its id a string or null, parse_jsonrpc_response, with or
\* without an expected id, raises the error with the remote's code, message
\* and data, not an error of another kind.
C30_RemoteErrorSurfaced ==
  [][(Returns("parse_jsonrpc_response")' /\ ErrorEnvelope(ret'.args.body)) =>
       /\ ret'.result.raised
       /\ ret'.result.code = ret'.args.body.error.code
       /\ ret'.result.message = ret'.args.body.error.message
       /\ ret'.result.data = ret'.args.body.error.data]_vars

\* The three failures of a malformed response, told apart by the code and
\* the message of the JsonRpcError raised.
IdMismatchMessage == "ID mismatch!"
Failure(r) ==
  IF ~r.raised THEN None
  ELSE IF r.code = PARSE_ERROR THEN "ParseError"
  ELSE IF r.code = INVALID_REQUEST /\ r.message = IdMismatchMessage THEN "IdMismatchError"
  ELSE IF r.code = INVALID_REQUEST THEN "ProtocolError"
  ELSE "JsonRpcError"
IsEnvelope(body) == body.json /\ body.dict
WellFormed(body) ==
  IsEnvelope(body) /\ body.jsonrpc = "2.0" /\ (body.has_error \/ body.has_result)

Extracted(value) == IF value.has_output THEN value.output ELSE "result"

\* C32: when the remote answers an invocation over the request/response
\* fallback with a valid result envelope, execute returns status success and
\* its result is the output member of the remote result if present and else
\* the raw remote result, whether the remote result is an object, an array,
\* a string, a number or null.
C32_SuccessPayload ==
  [][Returns("execute_tool")' =>
       \A i \in DOMAIN wire' :
         (wire'[i].method = "execute" /\ wire'[i].answer = "result") =>
           /\ Status' = "success"
           /\ ret'.result.payload = Extracted(wire'[i].value)]_vars

\* C33: across register_server, execute with its connect, a failed connect
\* followed by a retry, remove_server and a registration of the same
\* server_id again, the manager never holds more than one open channel
\* (entered session and transport context) for the same server_id.
C33_OneChannelPerServer ==
  \A server_id \in ServerIds : ChannelsOf(exit_stack, server_id) <= 1

\* C34: in every reachable state, those where an execute that connects is
\* suspended while remove_server of the same server runs included, every
\* Server Connection whose state is active is the object stored in the
\* server set under its server_id.
C34_ActiveOnlyInRegistry ==
  \A c \in ConnIds :
    (IsObject(conns[c]) /\ conns[c].connection_active) =>
      /\ DictHas(servers, conns[c].server_id)
      /\ DictGet(servers, conns[c].server_id) = c

\* The step belongs to an execute_tool call for tool_id: the call starts,
\* is resumed or returns in it.
ExecuteStep(tool_id) ==
  \/ Returns("execute_tool")' /\ ret'.args.tool_id = tool_id
  \/ \E t \in Tasks : tasks'[t].op = "execute_tool" /\ tasks'[t].args.tool_id = tool_id
RoutedTo(tool_id, server_id) ==
  DictHas(tool_to_server_map, tool_id) /\ DictGet(tool_to_server_map, tool_id) = server_id

\* C35: no step of MCPConnectionManager.execute_tool(tool_id, input) changes
\* the server set or the routing table, a reconnect within it included, and
\* none changes the connection of a server other than the one tool_id is
\* routed to.
C35_ExecuteFrame ==
  [][\A tool_id \in ToolIds :
       ExecuteStep(tool_id) =>
         /\ servers' = servers
         /\ tool_to_server_map' = tool_to_server_map
         /\ \A server_id \in ServerIds :
              (DictHas(servers, server_id) /\ ~RoutedTo(tool_id, server_id)) =>
                conns'[DictGet(servers', server_id)] = conns[DictGet(servers, server_id)]]_vars
\* An execute has reconnected its server, whose tools list names a tool
\* that has no route, while the other server of the set stays disconnected.
C35_Witness ==
  /\ Returns("execute_tool")
  /\ Status = "success"
  /\ \E i \in DOMAIN wire : wire[i].method = "tools/list"
  /\ \E server_id \in ServerIds :
       /\ RoutedTo(ret.args.tool_id, server_id)
       /\ \E i \in DOMAIN ToolsReported(conns, servers, server_id) :
            ~DictHas(tool_to_server_map, ToolsReported(conns, servers, server_id)[i])
       /\ \E other \in ServerIds \ {server_id} :
            DictHas(servers, other) /\ ~ActiveOf(conns, servers, other)

\* C36: whenever load_registry returns False (no path set, no file, a file
\* that does not parse, or a server entry part-way through the file that
\* cannot be turned into a Server Connection), the server set, its
\* connection objects and the routing table are what they were before the
\* call.
C36_FailedLoadKeepsState ==
  [][(Returns("load_registry")' /\ ret'.result.value = FALSE) =>
       /\ servers' = servers
       /\ tool_to_server_map' = tool_to_server_map
       /\ \A i \in DOMAIN servers : conns'[servers'[i][2]] = conns[servers[i][2]]]_vars

\* The requests of the request/response fallback.
FallbackMethods == {"ping", "tools/list", "execute"}

\* C37: for a server registered with connection_params that hold headers,
\* each request the request/response fallback sends to it (the ping probe,
\* the tools/list call and every tool invocation) carries those headers.
C37_HeadersPassedThrough ==
  \A i \in DOMAIN wire :
    (/\ wire[i].method \in FallbackMethods
     /\ DictHas(servers, wire[i].server_id)
     /\ conns[DictGet(servers, wire[i].server_id)].connection_params.headers # None) =>
      wire[i].headers = conns[DictGet(servers, wire[i].server_id)].connection_params.headers

\* C38: for every result value r and request id i, parse_jsonrpc_response
\* of the serialized create_jsonrpc_response(r, i) with expected id i
\* returns r; and of the serialized create_jsonrpc_error_response(c, m, d, i)
\* with expected id i it raises a JsonRpcError with code c, message m and
\* data d.
C38_CodecRoundTrip ==
  /\ Returns("round_trip_result") =>
       /\ ~ret.result.raised
       /\ ret.result.result = ret.args.result
  /\ Returns("round_trip_error") =>
       /\ ret.result.raised
       /\ ret.result.code = ret.args.error_code
       /\ ret.result.message = ret.args.error_message
       /\ ret.result.data = ret.args.error_data
\* An error response with data and with the empty message came back as the
\* error it was built from.
C38_Witness ==
  /\ Returns("round_trip_error")
  /\ ret.args.error_data # None
  /\ ret.args.error_message = ""
  /\ ret.args.request_id = RequestId
  /\ ret.result.raised
  /\ ret.result.data = ret.args.error_data

\* C39: test_invalid_method returns True whenever the server answers the
\* unknown method with a well-formed JSON-RPC 2.0 error response (matching
\* id, error object with code METHOD_NOT_FOUND and a message), delivered
\* with HTTP 200 or with an HTTP error status; and run_all_tests reports
\* that all tests passed for a server that answers the known methods with
\* results and the unknown one with that error.
C39_ValidatorAcceptsProperError ==
  /\ (Returns("test_invalid_method") /\ ret.args.reply \in MethodNotFoundReplies) =>
       ret.result.value = TRUE
  /\ (/\ Returns("run_all_tests")
      /\ {ret.args.ping, ret.args.text, ret.args.complex} \subseteq ResultReplies
      /\ ret.args.invalid \in MethodNotFoundReplies) => ret.result.value = TRUE

\* The runs of process_message: those suspended at a yield and the one that
\* has just ended, each with its message and what it yielded.
TerminalStates == {COMPLETED, FAILED}
OrderedYields(yielded) ==
  /\ Len(yielded) \in {1, 2}
  /\ \A i \in 1 .. Len(yielded) - 1 : yielded[i] = WORKING
  /\ Cardinality({i \in DOMAIN yielded : yielded[i] = WORKING}) <= 1
  /\ Cardinality({i \in DOMAIN yielded : yielded[i] \in TerminalStates}) <= 1
NoTextOrData(message) == message.parts \in {"none", "file"}

\* C40: every run of process_message yields exactly one terminal state
\* (COMPLETED or FAILED) and it is the last item yielded; WORKING is yielded
\* at most once and only before the terminal state; a message with no text
\* or data part yields FAILED alone; and no exception escapes the generator.
C40_TaskStateOrdering ==
  /\ \A t \in Tasks :
       tasks[t].op = "process_message" =>
         /\ OrderedYields(tasks[t].args.yielded)
         /\ NoTextOrData(tasks[t].args.message) => tasks[t].args.yielded = <<FAILED>>
  /\ Returns("process_message") =>
       /\ ~ret.result.raised
       /\ OrderedYields(ret.result.yielded)
       /\ ret.result.yielded[Len(ret.result.yielded)] \in TerminalStates
       /\ NoTextOrData(ret.args.message) => ret.result.yielded = <<FAILED>>
\* One run has ended after WORKING and FAILED while another one, for a
\* message with a file part only, is suspended after its FAILED.
C40_Witness ==
  /\ Returns("process_message")
  /\ ret.result.yielded = <<WORKING, FAILED>>
  /\ \E t \in Tasks :
       /\ tasks[t].op = "process_message"
       /\ tasks[t].args.message.parts = "file"
       /\ tasks[t].args.yielded = <<FAILED>>

====
